---- MODULE Spec2Model ----
(***************************************************************************)
(* Model of the RO-unit diagnostic pipeline of Tenant/app.                 *)
(*                                                                         *)
(*   SpecLatch : one PersistLatch object driven by hit()/reset() calls.    *)
(*   Spec      : one device's DiagnosticoEngine context driven by          *)
(*               evaluate() calls on the writer's snapshot.                *)
(*                                                                         *)
(* Units: times are seconds, pressures are hundredths of a bar, flows and  *)
(* conductivity are the sensor's own units.  Percentage comparisons of the *)
(* source (x < ref * 0.90) are written cross-multiplied (x*100 < ref*90);  *)
(* an average is kept as the pair (sum, n) and compared the same way.      *)
(* Floating-point rounding is not modelled.                                *)
(***************************************************************************)
EXTENDS Integers, Sequences, FiniteSets, TLC

\* ------------------------------------------------------------------------
\* Bounds of the model
\* ------------------------------------------------------------------------
\* horizon of the engine clock, in minutes
MaxTicks == 5
\* horizon of the engine clock when the pump states are reported too
MaxPumpTicks == 2
\* horizon of the stand-alone latch clock
MaxLatchTime == 6
\* largest persistence duration handed to the stand-alone latch
MaxLatchD == 3

\* minutes of the end-to-end scenario
MaxScenarioTicks == 24

\* seconds the writer is followed for
MaxClock == 5

\* accepted writes the writer is followed for
MaxRows == 3

\* store failures the writer is followed for
MaxFailures == 1

\* cooldown periods the alarm table is followed for
MaxCooldownSpans == 2

\* offline thresholds the devices table is followed for
MaxPresenceSpans == 2

\* SpecSampler: the add calls on one sampler, and the times of the calls
MaxAdds == 3

MaxSampleTime == 4

\* SpecTransport: failed connection attempts counted per client
MaxAttempts == 2

\* SpecLegacy: seconds of the legacy engine after Epoch
MaxLegacyTime == 180

\* TelemetryWriter(batch_size=...), scaled down from the 200 of the singleton
batch_size == 2

\* ------------------------------------------------------------------------
\* Values
\* ------------------------------------------------------------------------
\* Python None (an absent reading, an unset timestamp)
None == 0 - 1
\* a payload that float()/int() rejects
NaS == 0 - 2

S_IDLE == "IDLE"
S_STOPPED == "STOPPED"
S_PRECHECK_WAIT_PE == "PRECHECK_WAIT_PE"
S_PRECHECK_SAMPLE_PINT_OFF == "PRECHECK_SAMPLE_PINT_OFF"
S_STARTING_HIGH == "STARTING_HIGH"
S_PRODUCTION == "PRODUCTION"

SEV_INFO == "info"
SEV_WARN == "warn"
SEV_ALARM == "alarm"

_sev_rank(s) == IF s = SEV_WARN THEN 1 ELSE IF s = SEV_ALARM THEN 2 ELSE 0

_max_sev(a, b) == IF _sev_rank(b) > _sev_rank(a) THEN b ELSE a

Rules == {"A", "B", "C", "D", "E", "F"}

RuleOrder == <<"A", "B", "C", "D", "E", "F">>

AlarmCode(r) ==
    CASE r = "A" -> "A_FLUSH_BYPASS"
      [] r = "B" -> "B_ORING_MEM"
      [] r = "C" -> "C_AIRE_AGUA"
      [] r = "D" -> "D_RECH_OBS"
      [] r = "E" -> "E_MEM_OBS"
      [] r = "F" -> "F_CT_HIGH"

RuleSeverity(r) == IF r = "B" THEN SEV_ALARM ELSE SEV_WARN

RecCode(r) == r \o "_REC"

\* ------------------------------------------------------------------------
\* PersistLatch
\* ------------------------------------------------------------------------
\* hit() that compares with > instead of >=
hit_strict(t_first_true, cond, now_, persist_s) ==
    IF ~cond THEN [t_first_true |-> None, ret |-> FALSE]
    ELSE IF t_first_true = None THEN [t_first_true |-> now_, ret |-> FALSE]
    ELSE [t_first_true |-> t_first_true, ret |-> (now_ - t_first_true) > persist_s]

\* hit() that forgets to clear the first-true time on a false observation
hit_sticky(t_first_true, cond, now_, persist_s) ==
    IF ~cond THEN [t_first_true |-> t_first_true, ret |-> FALSE]
    ELSE IF t_first_true = None THEN [t_first_true |-> now_, ret |-> FALSE]
    ELSE [t_first_true |-> t_first_true, ret |-> (now_ - t_first_true) >= persist_s]

\* hit() that, once started, reports on the elapsed time alone
hit_latched(t_first_true, cond, now_, persist_s) ==
    IF t_first_true = None
    THEN [t_first_true |-> IF cond THEN now_ ELSE None, ret |-> FALSE]
    ELSE [t_first_true |-> t_first_true, ret |-> (now_ - t_first_true) >= persist_s]

\* PersistLatch.hit: the new first-true time and the returned value
hit(t_first_true, cond, now_, persist_s) ==
    IF ~cond THEN [t_first_true |-> None, ret |-> FALSE]
    ELSE IF t_first_true = None THEN [t_first_true |-> now_, ret |-> FALSE]
    ELSE [t_first_true |-> t_first_true, ret |-> (now_ - t_first_true) >= persist_s]

\* PersistLatch.reset
latch_reset == None

\* ------------------------------------------------------------------------
\* FixedWindowSampler
\* ------------------------------------------------------------------------
\* st["pre_sampler"] = None: no sampler object
NoSampler == [window_s |-> None, t0 |-> None, samples |-> <<>>]

\* FixedWindowSampler(window_s) followed by reset()
NewSampler(window_s) == [window_s |-> window_s, t0 |-> None, samples |-> <<>>]

IsSampler(s) == s.window_s # None

\* an add that takes every accepted sample as the start of the window
SamplerAdd_restart(s, ts, value) ==
    IF value = None \/ value = NaS THEN s
    ELSE [s EXCEPT !.t0 = ts,
                   !.samples = Append(s.samples, [ts |-> ts, v |-> value])]

\* FixedWindowSampler.add
SamplerAdd(s, ts, value) ==
    IF value = None \/ value = NaS THEN s
    ELSE [s EXCEPT !.t0 = IF s.t0 = None THEN ts ELSE s.t0,
                   !.samples = Append(s.samples, [ts |-> ts, v |-> value])]

\* an elapsed time counted from the newest sample
SamplerElapsed_last(s, now_) ==
    IF s.t0 = None THEN 0
    ELSE IF now_ - s.samples[Len(s.samples)].ts > 0
         THEN now_ - s.samples[Len(s.samples)].ts ELSE 0

\* FixedWindowSampler.elapsed
SamplerElapsed(s, now_) ==
    IF s.t0 = None THEN 0
    ELSE IF now_ - s.t0 > 0 THEN now_ - s.t0 ELSE 0

\* a window that counts as complete as soon as it is asked
SamplerDone_always(s, now_) == TRUE

\* FixedWindowSampler.done
SamplerDone(s, now_) == SamplerElapsed(s, now_) >= s.window_s

RECURSIVE SumVals(_)
SumVals(samples) ==
    IF samples = <<>> THEN 0 ELSE Head(samples).v + SumVals(Tail(samples))

\* the "avg" of FixedWindowSampler.stats, as the pair (sum, n); n = 0 is None
NoAvg == [sum |-> 0, n |-> 0]

SamplerAvg(s) ==
    IF s.samples = <<>> THEN NoAvg
    ELSE [sum |-> SumVals(s.samples), n |-> Len(s.samples)]

RECURSIVE MinVal(_)
MinVal(samples) ==
    IF Len(samples) = 1 THEN samples[1].v
    ELSE IF Head(samples).v < MinVal(Tail(samples)) THEN Head(samples).v
         ELSE MinVal(Tail(samples))

RECURSIVE MaxVal(_)
MaxVal(samples) ==
    IF Len(samples) = 1 THEN samples[1].v
    ELSE IF Head(samples).v > MaxVal(Tail(samples)) THEN Head(samples).v
         ELSE MaxVal(Tail(samples))

\* FixedWindowSampler.stats; avg is the pair (sum, n), None when n = 0
SamplerStats(s) ==
    IF s.samples = <<>>
    THEN [avg |-> None, min |-> None, max |-> None, n |-> 0]
    ELSE [avg |-> [sum |-> SumVals(s.samples), n |-> Len(s.samples)],
          min |-> MinVal(s.samples), max |-> MaxVal(s.samples),
          n |-> Len(s.samples)]

\* FixedWindowSampler.reset
SamplerReset(s) == [s EXCEPT !.t0 = None, !.samples = <<>>]

\* ------------------------------------------------------------------------
\* DiagnosticoEngine helpers
\* ------------------------------------------------------------------------
\* DiagnosticoEngine._as01
_as01(x) == IF x = None \/ x = NaS THEN None ELSE IF x # 0 THEN 1 ELSE 0

\* DiagnosticoEngine._f
_f(x) == IF x = None \/ x = NaS THEN None ELSE x

\* float(cfg.get(key, default) or default)
OrDefault(x, default) == IF x = None \/ x = 0 THEN default ELSE x

t_precheck_s(c) == OrDefault(c.t_precheck_s, 30)

t_start_ignore_s(c) == OrDefault(c.t_start_ignore_s, 60)

t_persist_s(c) == OrDefault(c.t_persist_s, 120)

\* near-zero baseline threshold, in hundredths of a bar (0.05 bar by default)
pint_pre_zero_th(c) == OrDefault(c.pint_pre_zero_th, 5)

cond_high_pct(c) == OrDefault(c.cond_high_pct, 20)

\* DiagnosticoEngine._get_state: the context of a device on first use
NoLatches == [r \in Rules |-> None]

InitState ==
    [eng_state |-> S_IDLE,
     t_cycle_start |-> None,
     t_high_start |-> None,
     pre_sampler |-> NoSampler,
     pint_off_baseline |-> NoAvg,
     prod_since |-> None,
     latch |-> NoLatches]

EmptyResult == [severity |-> SEV_INFO, alarms |-> <<>>, recs |-> <<>>]

\* what one evaluate() pass did, kept beside its result (res.debug and more)
NoTrace ==
    [state |-> S_IDLE, pe |-> None, ct |-> None, pint |-> None,
     started |-> FALSE, waited |-> FALSE, sampled |-> FALSE,
     window_done |-> FALSE, rules |-> FALSE,
     ct_valid |-> FALSE, ct_high |-> FALSE,
     cond |-> [r \in Rules |-> FALSE]]

\* ------------------------------------------------------------------------
\* DiagnosticoEngine.evaluate, block by block.  A block takes and returns the
\* pass so far: c.st the device context, c.eng the local "eng", c.res the
\* result, c.ret whether evaluate has returned, c.g the trace of the pass.
\* ------------------------------------------------------------------------
\* "if ct is not None and ct == 0"
CtIsZero(ct) == ct # None /\ ct = 0

\* the stop alarm raised whatever the previous state
WasRunning_always(eng) == TRUE

\* "if eng not in (S_STOPPED, S_IDLE)"
WasRunning(eng) == eng \notin {S_STOPPED, S_IDLE}

\* a stop that leaves the latches and the production start as they are
StopReset_partial(st_) ==
    [st_ EXCEPT !.eng_state = S_STOPPED,
                !.t_cycle_start = None,
                !.t_high_start = None,
                !.pre_sampler = NoSampler]

\* the controlled stop of a running unit
StopReset(st_) ==
    [st_ EXCEPT !.eng_state = S_STOPPED,
                !.t_cycle_start = None,
                !.t_high_start = None,
                !.pre_sampler = NoSampler,
                !.prod_since = None,
                !.latch = [r \in Rules |-> latch_reset]]

StopBranch(c) ==
    LET c1 == IF WasRunning(c.eng)
              THEN [c EXCEPT !.st = StopReset(c.st),
                             !.res.alarms = Append(c.res.alarms, "I_STOP")]
              ELSE c
    IN [c1 EXCEPT !.st.eng_state = S_STOPPED,
                  !.res.severity = _max_sev(SEV_INFO, c1.res.severity),
                  !.ret = TRUE]

\* "if eng in (S_IDLE, S_STOPPED)": start a precheck cycle
PrecheckStart(c, now_, cf) ==
    IF c.ret \/ c.eng \notin {S_IDLE, S_STOPPED} THEN c
    ELSE [c EXCEPT !.st.eng_state = S_PRECHECK_WAIT_PE,
                   !.st.t_cycle_start = now_,
                   !.st.pre_sampler = NewSampler(t_precheck_s(cf)),
                   !.eng = S_PRECHECK_WAIT_PE,
                   !.g.started = TRUE]

\* a precheck timeout that needs strictly more than the window
PrecheckTimedOut_strict(now_, t0, window) == (now_ - t0) > window

\* "if (now - t0) >= t_precheck_s"
PrecheckTimedOut(now_, t0, window) == (now_ - t0) >= window

\* "if eng == S_PRECHECK_WAIT_PE": wait for the pressure switch
WaitPE(c, pe, now_, cf) ==
    IF c.ret \/ c.eng # S_PRECHECK_WAIT_PE THEN c
    ELSE LET t0 == IF c.st.t_cycle_start = None \/ c.st.t_cycle_start = 0
                   THEN now_ ELSE c.st.t_cycle_start
             c1 == [c EXCEPT !.g.waited = TRUE]
         IN IF pe = 1
            THEN [c1 EXCEPT !.st.eng_state = S_PRECHECK_SAMPLE_PINT_OFF,
                            !.eng = S_PRECHECK_SAMPLE_PINT_OFF]
            ELSE IF PrecheckTimedOut(now_, t0, t_precheck_s(cf))
            THEN [c1 EXCEPT !.res.alarms = Append(c.res.alarms, "E02"),
                            !.res.severity = SEV_ALARM,
                            !.st.eng_state = S_STOPPED,
                            !.ret = TRUE]
            ELSE [c1 EXCEPT !.ret = TRUE]

\* a near-zero test that lets a baseline equal to the threshold pass
BaselineNearZero_strict(avg, th) == avg.n = 0 \/ avg.sum < th * avg.n

\* "if pint_off_avg is None or pint_off_avg <= pint_pre_zero_th"
BaselineNearZero(avg, th) == avg.n = 0 \/ avg.sum <= th * avg.n

\* "if ref_pint_work is not None: if pint_off_avg < ref_pint_work * 0.95"
PrefilterWarn(avg, ref_pint_work) ==
    ref_pint_work # None /\ avg.sum * 100 < ref_pint_work * 95 * avg.n

\* a production entry that keeps the old production start
EnterProduction_stale(st_, now_) ==
    [st_ EXCEPT !.eng_state = S_PRODUCTION,
                !.latch = [r \in Rules |-> latch_reset]]

\* "st[eng_state] = S_PRODUCTION ..." and the latch reset that follows
EnterProduction(st_, now_) ==
    [st_ EXCEPT !.eng_state = S_PRODUCTION,
                !.prod_since = now_,
                !.latch = [r \in Rules |-> latch_reset]]

\* "if eng == S_PRECHECK_SAMPLE_PINT_OFF": sample the baseline, then judge it
SamplePint(c, pint, now_, cf) ==
    IF c.ret \/ c.eng # S_PRECHECK_SAMPLE_PINT_OFF THEN c
    ELSE LET s0 == IF IsSampler(c.st.pre_sampler) THEN c.st.pre_sampler
                   ELSE NewSampler(t_precheck_s(cf))
             s1 == SamplerAdd(s0, now_, pint)
             c1 == [c EXCEPT !.st.pre_sampler = s1,
                             !.g.sampled = Len(s1.samples) > Len(s0.samples)]
             avg == SamplerAvg(s1)
             c2 == [c1 EXCEPT !.st.pint_off_baseline = avg,
                              !.g.window_done = TRUE]
         IN IF ~SamplerDone(s1, now_) THEN [c1 EXCEPT !.ret = TRUE]
            ELSE IF BaselineNearZero(avg, pint_pre_zero_th(cf))
            THEN [c2 EXCEPT !.res.alarms = Append(c.res.alarms, "E01"),
                            !.res.severity = SEV_ALARM,
                            !.st.eng_state = S_STOPPED,
                            !.ret = TRUE]
            ELSE LET c3 == IF PrefilterWarn(avg, _f(cf.ref_pint_work))
                           THEN [c2 EXCEPT !.res.alarms = Append(c.res.alarms, "W10"),
                                           !.res.severity = SEV_WARN]
                           ELSE c2
                 IN [c3 EXCEPT !.st = EnterProduction(c3.st, now_),
                               !.eng = S_PRODUCTION]

\* "ct_valid": false until the ignore window has passed since production start
CtValid(t_in_prod, cf) == ~(t_in_prod < t_start_ignore_s(cf))

\* the comparisons with the references, and the predicates of the rules A-F
RuleFlags(pint, qp, qr, ct, cf, ct_valid) ==
    LET ref_pint_work == _f(cf.ref_pint_work)
        ref_qp == _f(cf.ref_qp)
        ref_qr == _f(cf.ref_qr)
        ref_qsum == _f(cf.ref_qsum)
        ref_ct == _f(cf.ref_ct)
        hasq == qp # None /\ qr # None
        qsum == IF hasq THEN qp + qr ELSE None
        qp_low == qp # None /\ ref_qp # None /\ qp * 100 < ref_qp * 90
        qp_very_low == qp # None /\ ref_qp # None /\ qp * 100 < ref_qp * 10
        qp_high == qp # None /\ ref_qp # None /\ qp * 100 > ref_qp * 105
        qr_low == qr # None /\ ref_qr # None /\ qr * 100 < ref_qr * 70
        qr_high == qr # None /\ ref_qr # None /\ qr * 100 > ref_qr * 120
        qr_pos == qr # None /\ ref_qr = None /\ qr > 0
        qr_le_ref == qr # None /\ ref_qr # None /\ qr <= ref_qr
        qsum_low == hasq /\ ref_qsum # None /\ qsum * 100 < ref_qsum * 90
        qsum_ok == hasq /\ ref_qsum # None /\ qsum * 100 >= ref_qsum * 95
        pint_high == pint # None /\ ref_pint_work # None
                     /\ pint * 100 > ref_pint_work * 107
        pint_low == pint # None /\ ref_pint_work # None
                    /\ pint * 100 < ref_pint_work * 70
        pint_ok == pint # None /\ ref_pint_work # None
                   /\ ref_pint_work * 90 <= pint * 100
                   /\ pint * 100 <= ref_pint_work * 107
        ct_high == ct_valid /\ ct # None /\ ref_ct # None
                   /\ ct * 100 > ref_ct * (100 + cond_high_pct(cf))
    IN [ct_high |-> ct_high,
        A |-> (qr_high \/ qr_pos)
              /\ (qp_very_low \/ (qp # None /\ qp * 100 <= 5))
              /\ (ct # None /\ ct <= 1),
        B |-> ct_high /\ qp_high /\ (qr_low \/ qr_le_ref),
        C |-> pint_low /\ (qr_high \/ qr_pos) /\ (qp_low \/ qp_very_low),
        D |-> pint_high
              /\ (qr_low \/ (qr # None /\ ref_qr # None /\ qr * 100 < ref_qr * 60))
              /\ qp_high,
        E |-> pint_high /\ (qr_low \/ qr_le_ref)
              /\ (qp # None /\ ref_qp # None /\ qp <= ref_qp),
        F |-> ct_high /\ pint_ok /\ ~qsum_low /\ qsum_ok]

RuleCond(flags, r) ==
    CASE r = "A" -> flags.A
      [] r = "B" -> flags.B
      [] r = "C" -> flags.C
      [] r = "D" -> flags.D
      [] r = "E" -> flags.E
      [] r = "F" -> flags.F

\* the rules of RuleOrder[i..] that fired, in order
RECURSIVE FiredFrom(_, _)
FiredFrom(fired, i) ==
    IF i > Len(RuleOrder) THEN <<>>
    ELSE (IF fired[RuleOrder[i]] THEN <<RuleOrder[i]>> ELSE <<>>)
         \o FiredFrom(fired, i + 1)

RECURSIVE AlarmCodes(_)
AlarmCodes(rs) ==
    IF rs = <<>> THEN <<>> ELSE <<AlarmCode(Head(rs))>> \o AlarmCodes(Tail(rs))

\* recommendations that stop after the first fired rule
RecCodes_first(rs) ==
    IF rs = <<>> THEN <<>> ELSE <<RecCode(Head(rs))>>

RECURSIVE RecCodes(_)
RecCodes(rs) ==
    IF rs = <<>> THEN <<>> ELSE <<RecCode(Head(rs))>> \o RecCodes(Tail(rs))

RECURSIVE MaxSeverity(_, _)
MaxSeverity(sev, rs) ==
    IF rs = <<>> THEN sev
    ELSE MaxSeverity(_max_sev(sev, RuleSeverity(Head(rs))), Tail(rs))

\* "if eng == S_PRODUCTION": the six rules, each behind its own latch
Production(c, pint, qp, qr, ct, now_, cf) ==
    IF c.ret \/ c.eng # S_PRODUCTION THEN c
    ELSE LET t_prod0 == IF c.st.prod_since = None \/ c.st.prod_since = 0
                        THEN now_ ELSE c.st.prod_since
             t_in_prod == now_ - t_prod0
             ct_valid == CtValid(t_in_prod, cf)
             flags == RuleFlags(pint, qp, qr, ct, cf, ct_valid)
             h == [r \in Rules |->
                     hit(c.st.latch[r], RuleCond(flags, r), now_, t_persist_s(cf))]
             fired == FiredFrom([r \in Rules |-> h[r].ret], 1)
         IN [c EXCEPT !.st.latch = [r \in Rules |-> h[r].t_first_true],
                      !.res.alarms = c.res.alarms \o AlarmCodes(fired),
                      !.res.recs = c.res.recs \o RecCodes(fired),
                      !.res.severity = MaxSeverity(c.res.severity, fired),
                      !.g.rules = TRUE,
                      !.g.ct_valid = ct_valid,
                      !.g.ct_high = flags.ct_high,
                      !.g.cond = [r \in Rules |-> RuleCond(flags, r)],
                      !.ret = TRUE]

\* the one element of a singleton: binds the value of a block once
Only(S) == CHOOSE x \in S : TRUE

\* DiagnosticoEngine.evaluate(device_id, live, cfg) at time now_
evaluate(st_, live, cf, now_) ==
    LET pe == _as01(live.presostat_low)
        pint == _f(live.pressure_inter)
        qp == _f(live.flow_perm)
        qr == _f(live.flow_reject)
        ct == _f(live.conductivity_perm)
        c0 == [st |-> st_, eng |-> st_.eng_state, res |-> EmptyResult,
               ret |-> FALSE,
               g |-> [NoTrace EXCEPT !.state = st_.eng_state, !.pe = pe,
                                     !.ct = ct, !.pint = pint]]
    IN IF CtIsZero(ct) THEN StopBranch(c0)
       ELSE Only({Production(c3, pint, qp, qr, ct, now_, cf) : c3 \in
              {Only({SamplePint(c2, pint, now_, cf) : c2 \in
                 {Only({WaitPE(c1, pe, now_, cf) : c1 \in
                    {PrecheckStart(c0, now_, cf)}})}})}})

\* ------------------------------------------------------------------------
\* TelemetryWriter._run_diagnosis: alarms and recommendations into the store
\* ------------------------------------------------------------------------
COOLDOWN_MINUTES == 15

\* timedelta(minutes=minutes), in seconds
CooldownS == COOLDOWN_MINUTES * 60

\* a cooldown test that never finds a recent row
_alarm_recent_never(dbv, code, t) == FALSE

\* _alarm_recent asked at time t: a row of this code with ts >= cutoff
_alarm_recent(dbv, code, t) ==
    \E a \in dbv : a.code = code /\ a.ts >= t - CooldownS

\* crud.insert_alarm with ts = now_dt
insert_alarm(dbv, code, t) == dbv \cup {[code |-> code, ts |-> t]}

\* crud.insert_recommendation: an alarm row with the code prefixed
insert_recommendation(dbv, code, t) ==
    dbv \cup {[code |-> "REC_" \o code, ts |-> t]}

\* "for a in res.alarms": skip a recent code, else insert
RECURSIVE StoreAlarms(_, _, _)
StoreAlarms(dbv, codes, t) ==
    IF codes = <<>> THEN dbv
    ELSE StoreAlarms(IF _alarm_recent(dbv, Head(codes), t) THEN dbv
                     ELSE insert_alarm(dbv, Head(codes), t),
                     Tail(codes), t)

\* "for r in res.recs": the same cooldown on the prefixed code
RECURSIVE StoreRecs(_, _, _)
StoreRecs(dbv, codes, t) ==
    IF codes = <<>> THEN dbv
    ELSE StoreRecs(IF _alarm_recent(dbv, "REC_" \o Head(codes), t) THEN dbv
                   ELSE insert_recommendation(dbv, Head(codes), t),
                   Tail(codes), t)

\* ------------------------------------------------------------------------
\* State
\* ------------------------------------------------------------------------
VARIABLES
    st,         \* DiagnosticoEngine._st_by_dev[device]
    now,        \* time.time() of the last evaluation
    cfg,        \* the cfg dict handed to evaluate
    snap,       \* TelemetryWriter._last_snapshot_by_dev[device]
    res,        \* the EngineResult of the last evaluation
    tr,         \* trace of the last evaluation
    since,      \* history: per rule, since when its condition has held
    zrun,       \* history: the current run of evaluations with conductivity 0
    pl_t,       \* a PersistLatch: t_first_true
    pl_now,     \* time of the last call on it
    pl_D,       \* persist_s of the calls on it
    pl_call,    \* the last call on it and what it returned
    pl_t0,      \* history: first true call since the last false call or reset
    pl_fired,   \* history: the call before the last was a true call that returned true
    db,         \* the rows of the alarms table of the device: code and ts
    sampling,   \* history: when the engine entered PRECHECK_SAMPLE_PINT_OFF
    clock,      \* time.time()
    w_lock,     \* TelemetryWriter._lock: the thread holding it, or Free
    w_buf,      \* TelemetryWriter._buf
    w_last,     \* TelemetryWriter._last_write_ts_by_dev
    w_snaps,    \* TelemetryWriter._last_snapshot_by_dev
    thr,        \* the threads calling enqueue: position and locals
    fl,         \* the flush thread: position and locals of _run and flush
    stored,     \* the rows of the telemetry table, in insertion order
    ctx_by_dev, \* DiagnosticoEngine._st_by_dev: the context of each device
    ctxs,       \* the context dicts created so far
    hist,       \* history: rows appended, evaluations made, store failures
    w_stop,     \* TelemetryWriter._stop: the event is set
    devices,    \* the devices table: status and last_seen of each device
    alarms,     \* the alarms table of all devices: device_id, code and ts
    touch,      \* mqtt_ingestor._last_touch_by_device
    ctx,        \* engine.DiagnosticEngine.ctx: the devices with a context
    wd,         \* the thread of _offline_watchdog: position and locals
    smp,        \* a FixedWindowSampler, and history: the calls made on it
    leg,        \* engine.DiagnosticEngine.ctx[device]: the legacy context
    mq,         \* the MQTT client: its connection and its network thread
    pres        \* a presence touch under way, and history: presence alarms

engineVars == <<st, now, cfg, snap, res, tr, since, zrun, db, sampling>>

latchVars == <<pl_t, pl_now, pl_D, pl_call, pl_t0, pl_fired>>

writerVars == <<clock, w_lock, w_buf, w_last, w_snaps, thr, fl, stored,
                ctx_by_dev, ctxs, hist>>

ingestVars == <<w_stop, devices, alarms, touch, ctx, wd>>

lateVars == <<smp, leg, mq, pres>>

vars == <<st, now, cfg, snap, res, tr, since, zrun,
          pl_t, pl_now, pl_D, pl_call, pl_t0, pl_fired, db, sampling,
          clock, w_lock, w_buf, w_last, w_snaps, thr, fl, stored,
          ctx_by_dev, ctxs, hist,
          w_stop, devices, alarms, touch, ctx, wd,
          smp, leg, mq, pres>>

\* ------------------------------------------------------------------------
\* Inputs
\* ------------------------------------------------------------------------
\* a device with every reference configured, as _run_diagnosis maps it
CfgFull ==
    [ref_pint_work |-> 200, ref_qp |-> 500, ref_qr |-> 200, ref_qsum |-> 700,
     ref_ct |-> 100, t_precheck_s |-> 60, t_start_ignore_s |-> 60,
     t_persist_s |-> 120, pint_pre_zero_th |-> 5, cond_high_pct |-> None]

\* a device with no reference configured and zeroed timings
CfgBare ==
    [ref_pint_work |-> None, ref_qp |-> None, ref_qr |-> None, ref_qsum |-> None,
     ref_ct |-> None, t_precheck_s |-> 0, t_start_ignore_s |-> 0,
     t_persist_s |-> 120, pint_pre_zero_th |-> None, cond_high_pct |-> None]

Configs == {CfgFull, CfgBare}

\* seconds between two accepted writes of a device
Steps == {60, 120}

MaxTime == MaxTicks * 60

TELE_KEYS ==
    {"presostat_low", "pressure_inter", "flow_perm", "flow_reject",
     "conductivity_perm"}

STATE_KEYS == {"pump_low", "pump_high"}

\* the readings a device reports on each tele topic
TeleValues(key) ==
    CASE key = "presostat_low" -> {0, 1}
      [] key = "pressure_inter" -> {5, 200, 220}
      [] key = "flow_perm" -> {0, 530}
      [] key = "flow_reject" -> {100, 250}
      [] key = "conductivity_perm" -> {0, 1, 200}

PUMP_VALUES == {0, 1}

\* a key the payload of a debug push does not carry
Absent == 0 - 3

\* payloads of the debug push: several fields at once, any JSON value
Payloads ==
    {[presostat_low |-> 2, pressure_inter |-> 200, flow_perm |-> Absent,
      flow_reject |-> Absent, conductivity_perm |-> 1],
     [presostat_low |-> Absent, pressure_inter |-> Absent, flow_perm |-> Absent,
      flow_reject |-> Absent, conductivity_perm |-> NaS],
     [presostat_low |-> Absent, pressure_inter |-> None, flow_perm |-> Absent,
      flow_reject |-> Absent, conductivity_perm |-> Absent],
     [presostat_low |-> Absent, pressure_inter |-> 220, flow_perm |-> 530,
      flow_reject |-> 100, conductivity_perm |-> 200],
     [presostat_low |-> Absent, pressure_inter |-> 5, flow_perm |-> 0,
      flow_reject |-> 250, conductivity_perm |-> 1],
     [presostat_low |-> Absent, pressure_inter |-> 200, flow_perm |-> 530,
      flow_reject |-> 250, conductivity_perm |-> 200]}

EmptySnapshot ==
    [presostat_low |-> None, pressure_inter |-> None, flow_perm |-> None,
     flow_reject |-> None, conductivity_perm |-> None,
     pump_low |-> None, pump_high |-> None]

\* snap.update(fields) for a tele payload
Merge(sn, p) ==
    [k \in DOMAIN sn |->
        IF k \in DOMAIN p /\ p[k] # Absent THEN p[k] ELSE sn[k]]

\* the "live" dict _run_diagnosis builds from the snapshot
LiveOf(sn) ==
    [presostat_low |-> sn.presostat_low,
     pressure_inter |-> sn.pressure_inter,
     flow_perm |-> sn.flow_perm,
     flow_reject |-> sn.flow_reject,
     conductivity_perm |-> sn.conductivity_perm]

NoRun == [len |-> 0, istops |-> 0, from_running |-> FALSE]

RECURSIVE Count(_, _)
Count(seq, x) ==
    IF seq = <<>> THEN 0
    ELSE (IF Head(seq) = x THEN 1 ELSE 0) + Count(Tail(seq), x)

\* ------------------------------------------------------------------------
\* TelemetryWriter: values
\* ------------------------------------------------------------------------
min_interval_s == 5

flush_interval_s == 2

\* time.time() when the process starts
Epoch == 100

\* the threads that call enqueue: the MQTT callback and a web worker
Callers == {1, 2}

\* the thread of _run
Flusher == 3

\* seconds between two moments at which some thread is scheduled
TickSteps == {2, 3}

\* nobody holds the lock
Free == 0

Devices == {"d1", "d2"}

\* enqueue(device, tele={key: v}): one reading
TeleOnly(key, v) == [k \in TELE_KEYS |-> IF k = key THEN v ELSE Absent]

\* what the callers hand to enqueue: d1 reports two topics, d2 one
DevicePayloads(d) ==
    IF d = "d1"
    THEN {TeleOnly("flow_perm", 1), TeleOnly("flow_perm", 2),
          TeleOnly("conductivity_perm", 1)}
    ELSE {TeleOnly("flow_perm", 1)}

IdleThread ==
    [pc |-> "idle", dev |-> "d1", p |-> TeleOnly("none", Absent), now_ts |-> 0,
     copy |-> EmptySnapshot, live |-> LiveOf(EmptySnapshot), ref |-> 0, eng |-> 0]

\* _last_write_ts_by_dev.get(device_id, 0.0) read for any device at all
LastWrite_any(last, d) ==
    CHOOSE x \in {last[e] : e \in Devices} : \A e \in Devices : last[e] <= x

\* _last_write_ts_by_dev.get(device_id, 0.0)
LastWrite(last, d) == last[d]

\* a coalesced enqueue that returns without the merge
MergeCoalesced_skip(sn, p) == sn

\* the merge of the coalesced branch: snap.update(tele); snap.update(state)
MergeCoalesced(sn, p) == Merge(sn, p)

\* the row dict built from the snapshot
RowOf(d, ts, sn) == [dev |-> d, ts |-> ts, vals |-> sn]

\* a "with self._lock" block that reaches over the call of _run_diagnosis
LockAfterAppend_held(t) == t

\* leaving the "with self._lock" block of enqueue
LockAfterAppend(t) == Free

\* _run_diagnosis handed the shared snapshot dict itself
SnapArg_shared(copy, shared) == shared

\* _run_diagnosis is handed snap_copy = dict(snap)
SnapArg(copy, shared) == copy

\* "do_flush" of _run
DoFlush(len, now_, last_flush) ==
    \/ len >= batch_size
    \/ (now_ - last_flush) >= flush_interval_s /\ len > 0

\* a batch that takes the first row only
FlushBatch_head(buf) == <<Head(buf)>>

\* batch = self._buf[:]
FlushBatch(buf) == buf

\* history: the rows appended, the evaluations made, the failed inserts and
\* their rows, per device the last value supplied for each field, the rows
\* that were in the batch when stop() was called, and the alarm rows a
\* failed diagnosis pass did not get to insert
NoHist ==
    [appended |-> <<>>, evals |-> {}, fails |-> 0, lost |-> <<>>,
     fresh |-> [d \in Devices |-> EmptySnapshot], at_stop |-> <<>>,
     dropped |-> {}]

\* the last value supplied for each field, after one more enqueue carrying p
Supplied(last, p) ==
    [k \in DOMAIN last |->
        IF k \in DOMAIN p THEN (IF p[k] = Absent THEN last[k] ELSE p[k])
        ELSE last[k]]

\* TelemetryWriter.__init__, DiagnosticoEngine.__init__ and start()
WriterIdle ==
    /\ clock = Epoch
    /\ w_lock = Free
    /\ w_buf = <<>>
    /\ w_last = [d \in Devices |-> 0]
    /\ w_snaps = [d \in Devices |-> EmptySnapshot]
    /\ thr = [t \in Callers |-> IdleThread]
    /\ fl = [pc |-> "sleep", now |-> Epoch, last_flush |-> Epoch,
             batch |-> <<>>]
    /\ stored = <<>>
    /\ ctx_by_dev = [d \in Devices |-> 0]
    /\ ctxs = <<>>
    /\ hist = NoHist

\* ------------------------------------------------------------------------
\* mqtt_ingestor: values
\* ------------------------------------------------------------------------
PRESENCE_TOUCH_EVERY_S == 30

OFFLINE_AFTER_S == 180

TOPIC_ROOT == "plant"

\* JSON true and false, and the string "ACK", among the scalar values
JTrue == 0 - 4

JFalse == 0 - 5

StrACK == 0 - 6

\* the keys the JSON objects of the messages carry
JsonKeys == {"v", "value", "name", "pump_low", "pump_high"}

\* a JSON scalar: a number, null (None), a string (NaS, StrACK), true, false
Scalar(x) == [kind |-> "scalar", val |-> x, obj |-> [k \in JsonKeys |-> Absent]]

\* the JSON object {key: x}
Object1(key, x) ==
    [kind |-> "object", val |-> Absent,
     obj |-> [k \in JsonKeys |-> IF k = key THEN x ELSE Absent]]

\* the JSON object {}
Object0 == Object1("none", Absent)

\* raw payloads: empty bytes, bytes that are not JSON, and JSON texts
RawEmpty == [text |-> "empty", json |-> Scalar(None)]

RawGarbage == [text |-> "garbage", json |-> Scalar(None)]

RawJson(j) == [text |-> "json", json |-> j]

\* _decode_payload: None for empty, the string itself when json.loads fails
_decode_payload(raw) ==
    CASE raw.text = "empty" -> Scalar(None)
      [] raw.text = "garbage" -> Scalar(NaS)
      [] OTHER -> raw.json

\* isinstance(x, (int, float)): numbers, and the bools, which are ints
IsNumber(x) == x >= 0 \/ x \in {JTrue, JFalse}

\* float(x)
Float(x) == IF x = JTrue THEN 1 ELSE IF x = JFalse THEN 0 ELSE x

\* _tele_value: a number, or the number under "v" of an object, or None
_tele_value(payload) ==
    IF payload.kind = "scalar" /\ IsNumber(payload.val) THEN Float(payload.val)
    ELSE IF payload.kind = "object" /\ payload.obj["v"] # Absent
            /\ IsNumber(payload.obj["v"])
         THEN Float(payload.obj["v"])
         ELSE None

\* no parts: the topic is not one of ours
NoParts == [ok |-> FALSE, device_id |-> "", kind |-> "", rest |-> <<>>]

\* _extract_parts on the segments of topic.split("/")
_extract_parts(topic) ==
    IF Len(topic) < 4 THEN NoParts
    ELSE IF topic[1] # TOPIC_ROOT THEN NoParts
    ELSE [ok |-> TRUE, device_id |-> topic[3], kind |-> topic[4],
          rest |-> SubSeq(topic, 5, Len(topic))]

\* a device the devices table has no row for
NoDevice == [status |-> "NONE", last_seen |-> None]

\* crud.create_device: the row of a device that never reported
NewDevice == [status |-> "PENDING", last_seen |-> None]

\* _should_touch: the throttle of the presence touch
_should_touch(tch, d, t) == tch[d] = None \/ (t - tch[d]) >= PRESENCE_TOUCH_EVERY_S

\* a touch that looks at last_seen after it has written it
touch_device_seen_late(devs, d, t) ==
    IF devs[d] = NoDevice
    THEN [devices |-> devs, first_seen |-> FALSE, prev_status |-> "NONE"]
    ELSE [devices |-> [devs EXCEPT ![d] = [status |-> "ONLINE", last_seen |-> t]],
          first_seen |-> FALSE,
          prev_status |-> devs[d].status]

\* crud.touch_device_seen: (first_seen, previous_status)
touch_device_seen(devs, d, t) ==
    IF devs[d] = NoDevice
    THEN [devices |-> devs, first_seen |-> FALSE, prev_status |-> "NONE"]
    ELSE [devices |-> [devs EXCEPT ![d] = [status |-> "ONLINE", last_seen |-> t]],
          first_seen |-> devs[d].last_seen = None,
          prev_status |-> devs[d].status]

\* crud.create_alarm_simple and crud.create_alarm: one more row
create_alarm(tbl, d, code, t) ==
    tbl \cup {[device_id |-> d, code |-> code, ts |-> t]}

\* _presence_touch_and_events
_presence_touch_and_events(devs, tbl, d, t) ==
    LET r == touch_device_seen(devs, d, t)
    IN  [devices |-> r.devices,
         alarms |-> IF r.first_seen
                    THEN create_alarm(tbl, d, "DEVICE_FIRST_SEEN", t)
                    ELSE IF r.prev_status = "OFFLINE"
                         THEN create_alarm(tbl, d, "DEVICE_RECONNECTED", t)
                         ELSE tbl]

\* crud.list_devices_stale: last_seen not null and before the cutoff
list_devices_stale(devs, cutoff) ==
    {d \in DOMAIN devs : devs[d].last_seen # None /\ devs[d].last_seen < cutoff}

\* crud.set_device_offline
set_device_offline(devs, d) ==
    IF devs[d] = NoDevice THEN devs ELSE [devs EXCEPT ![d].status = "OFFLINE"]

\* _on_message, lines 125-126: the throttled presence touch of device d
Presence(tch, devs, tbl, d, t) ==
    IF _should_touch(tch, d, t)
    THEN LET r == _presence_touch_and_events(devs, tbl, d, t)
         IN  [touch |-> [tch EXCEPT ![d] = t], devices |-> r.devices,
              alarms |-> r.alarms]
    ELSE [touch |-> tch, devices |-> devs, alarms |-> tbl]

\* the watchdog thread between two scans
IdleWatchdog ==
    [pc |-> "sleep", stale |-> {}, rows |-> [d \in Devices |-> NewDevice]]

\* nothing ingested yet: no touch, no context, no alarm, the writer running
IngestIdle ==
    /\ w_stop = FALSE
    /\ devices = [d \in Devices |-> NewDevice]
    /\ alarms = {}
    /\ touch = [d \in Devices |-> None]
    /\ ctx = {}
    /\ wd = IdleWatchdog

\* no sampler of its own, no legacy context, no client, no touch under way
LateIdle ==
    /\ smp = 0
    /\ leg = 0
    /\ mq = 0
    /\ pres = 0

\* ------------------------------------------------------------------------
\* Spec: evaluations of one device
\* ------------------------------------------------------------------------
LatchIdle ==
    /\ pl_t = None
    /\ pl_now = 0
    /\ pl_D = 1
    /\ pl_call = [op |-> "new", cond |-> FALSE, ret |-> FALSE]
    /\ pl_t0 = None
    /\ pl_fired = FALSE

EngineIdle ==
    /\ st = InitState
    /\ now = 0
    /\ snap = EmptySnapshot
    /\ res = EmptyResult
    /\ tr = NoTrace
    /\ since = [r \in Rules |-> None]
    /\ zrun = NoRun
    /\ db = {}
    /\ sampling = None

Init ==
    /\ EngineIdle
    /\ cfg \in Configs
    /\ LatchIdle
    /\ WriterIdle
    /\ IngestIdle
    /\ LateIdle

\* _run_diagnosis(device, sn, t): evaluate the snapshot, store what it raised
Diagnose(sn, t_) ==
    /\ \E t \in {t_} : \E c \in {evaluate(st, LiveOf(sn), cfg, t)} :
          /\ now' = t
          /\ snap' = sn
          /\ st' = c.st
          /\ res' = c.res
          /\ db' = StoreRecs(StoreAlarms(db, c.res.alarms, t), c.res.recs, t)
          /\ tr' = c.g
          /\ since' = [r \in Rules |->
                         IF c.g.rules /\ c.g.cond[r]
                         THEN (IF since[r] # None THEN since[r] ELSE t)
                         ELSE None]
          /\ zrun' = IF CtIsZero(c.g.ct)
                     THEN [len |-> zrun.len + 1,
                           istops |-> zrun.istops + Count(c.res.alarms, "I_STOP"),
                           from_running |->
                               IF zrun.len = 0
                               THEN st.eng_state \notin {S_IDLE, S_STOPPED}
                               ELSE zrun.from_running]
                     ELSE NoRun
          /\ sampling' = IF c.st.eng_state # S_PRECHECK_SAMPLE_PINT_OFF THEN None
                          ELSE IF st.eng_state = S_PRECHECK_SAMPLE_PINT_OFF
                               THEN sampling ELSE t
    /\ UNCHANGED cfg
    /\ UNCHANGED latchVars
    /\ UNCHANGED lateVars
    /\ UNCHANGED ingestVars
    /\ UNCHANGED writerVars

\* an accepted write dt after the last one, inside the horizon of Spec
RunDiagnosis(sn, dt) ==
    /\ now + dt <= MaxTime
    /\ Diagnose(sn, now + dt)

\* _on_message, kind "tele": one reading, then an accepted write
TeleMessage(key, v, dt) == RunDiagnosis([snap EXCEPT ![key] = v], dt)

\* _on_message, kind "state": the pump states, then an accepted write
StateMessage(key, v, dt) == RunDiagnosis([snap EXCEPT ![key] = v], dt)

\* debug_push: a payload of several fields, then an accepted write
DebugPush(p, dt) == RunDiagnosis(Merge(snap, p), dt)

Next ==
    \/ \E key \in TELE_KEYS : \E v \in TeleValues(key) : \E dt \in Steps :
          TeleMessage(key, v, dt)
    \/ \E p \in Payloads : \E dt \in Steps : DebugPush(p, dt)

Spec == Init /\ [][Next]_vars

\* ------------------------------------------------------------------------
\* SpecMissing: the same device when device_configs holds no row for it
\* ------------------------------------------------------------------------
\* the cfg dict _run_diagnosis builds from _cfg_to_dict(None) = {}: no
\* reference, 30 s for the pressure switch, 1 minute of start-up, 0.05 bar
CfgMissing ==
    [ref_pint_work |-> None, ref_qp |-> None, ref_qr |-> None, ref_qsum |-> None,
     ref_ct |-> None, t_precheck_s |-> 30, t_start_ignore_s |-> 60,
     t_persist_s |-> 120, pint_pre_zero_th |-> 5, cond_high_pct |-> None]

InitMissing ==
    /\ EngineIdle
    /\ cfg = CfgMissing
    /\ LatchIdle
    /\ WriterIdle
    /\ IngestIdle
    /\ LateIdle

SpecMissing == InitMissing /\ [][Next]_vars

\* ------------------------------------------------------------------------
\* SpecPump: the same device when state messages report the pumps as well
\* ------------------------------------------------------------------------
PumpHorizon == now < MaxPumpTicks * 60

PumpTele(key, v, dt) == PumpHorizon /\ TeleMessage(key, v, dt)

PumpState(key, v, dt) == PumpHorizon /\ StateMessage(key, v, dt)

PumpPush(p, dt) == PumpHorizon /\ DebugPush(p, dt)

NextPump ==
    \/ \E key \in TELE_KEYS : \E v \in TeleValues(key) : \E dt \in Steps :
          PumpTele(key, v, dt)
    \/ \E key \in STATE_KEYS : \E v \in PUMP_VALUES : \E dt \in Steps :
          PumpState(key, v, dt)
    \/ \E p \in Payloads : \E dt \in Steps : PumpPush(p, dt)

SpecPump == Init /\ [][NextPump]_vars

\* ------------------------------------------------------------------------
\* SpecLatch: one PersistLatch called at non-decreasing times
\* ------------------------------------------------------------------------
LatchSteps == {0, 1, 2}

InitLatch ==
    /\ EngineIdle
    /\ cfg = CfgFull
    /\ pl_t = None
    /\ pl_now = 0
    /\ pl_D \in 1..MaxLatchD
    /\ pl_call = [op |-> "new", cond |-> FALSE, ret |-> FALSE]
    /\ pl_t0 = None
    /\ pl_fired = FALSE
    /\ WriterIdle
    /\ IngestIdle
    /\ LateIdle

\* latch.hit(cond, pl_now + dt, pl_D)
LatchHit(cond, dt) ==
    /\ pl_now + dt <= MaxLatchTime
    /\ \E t \in {pl_now + dt} : \E h \in {hit(pl_t, cond, t, pl_D)} :
          /\ pl_now' = t
          /\ pl_t' = h.t_first_true
          /\ pl_call' = [op |-> "hit", cond |-> cond, ret |-> h.ret]
          /\ pl_t0' = IF ~cond THEN None
                      ELSE IF pl_t0 = None THEN t ELSE pl_t0
          /\ pl_fired' = (cond /\ pl_call.op = "hit" /\ pl_call.cond /\ pl_call.ret)
    /\ UNCHANGED pl_D
    /\ UNCHANGED engineVars
    /\ UNCHANGED lateVars
    /\ UNCHANGED writerVars
    /\ UNCHANGED ingestVars

\* latch.reset()
LatchReset ==
    /\ pl_t' = latch_reset
    /\ pl_call' = [op |-> "reset", cond |-> FALSE, ret |-> FALSE]
    /\ pl_t0' = None
    /\ pl_fired' = FALSE
    /\ UNCHANGED <<pl_now, pl_D>>
    /\ UNCHANGED engineVars
    /\ UNCHANGED lateVars
    /\ UNCHANGED writerVars
    /\ UNCHANGED ingestVars

NextLatch ==
    \/ \E cond \in BOOLEAN : \E dt \in LatchSteps : LatchHit(cond, dt)
    \/ LatchReset

SpecLatch == InitLatch /\ [][NextLatch]_vars

\* ------------------------------------------------------------------------
\* SpecScenario: one device driven through a whole cycle, stop to warning
\* ------------------------------------------------------------------------
\* ref_pint_work 2.0 bar, ref_qp 500, ref_qr 200, 30 s for the pressure switch
CfgScenario == [CfgFull EXCEPT !.t_precheck_s = 30]

PrecheckSteps == {10, 20}

HoldSteps == {60, 120}

ScenarioHorizon(dt) == now + dt <= MaxScenarioTicks * 60

\* what the unit reports once it produces: flows in range, conductivity high
ScenarioValue(key) ==
    CASE key = "pressure_inter" -> 200
      [] key = "flow_perm" -> 510
      [] key = "flow_reject" -> 210
      [] key = "conductivity_perm" -> 200

ScenarioKeys == {"pressure_inter", "flow_perm", "flow_reject", "conductivity_perm"}

InitScenario ==
    /\ EngineIdle
    /\ cfg = CfgScenario
    /\ LatchIdle
    /\ WriterIdle
    /\ IngestIdle
    /\ LateIdle

\* conductivity 0 while the unit is off: the first reading of the device
ScenarioOff(dt) ==
    /\ ScenarioHorizon(dt)
    /\ st.eng_state = S_IDLE
    /\ Diagnose([snap EXCEPT !.conductivity_perm = 0], now + dt)

\* conductivity 50: the unit has been started
ScenarioStart(dt) ==
    /\ ScenarioHorizon(dt)
    /\ st.eng_state = S_STOPPED
    /\ Diagnose([snap EXCEPT !.conductivity_perm = 50], now + dt)

\* the pressure switch reports 1 less than 30 s after the start
ScenarioSwitch(dt) ==
    /\ ScenarioHorizon(dt)
    /\ st.eng_state = S_PRECHECK_WAIT_PE
    /\ (now + dt) - st.t_cycle_start < 30
    /\ Diagnose([snap EXCEPT !.presostat_low = 1], now + dt)

\* baseline readings of 1.9 bar
ScenarioBaseline(dt) ==
    /\ ScenarioHorizon(dt)
    /\ st.eng_state = S_PRECHECK_SAMPLE_PINT_OFF
    /\ Diagnose([snap EXCEPT !.pressure_inter = 190], now + dt)

\* production readings, one tele message each, repeated while the unit runs
ScenarioProduce(key, dt) ==
    /\ ScenarioHorizon(dt)
    /\ st.eng_state = S_PRODUCTION
    /\ Diagnose([snap EXCEPT ![key] = ScenarioValue(key)], now + dt)

NextScenario ==
    \/ \E dt \in PrecheckSteps : ScenarioOff(dt)
    \/ \E dt \in PrecheckSteps : ScenarioStart(dt)
    \/ \E dt \in PrecheckSteps : ScenarioSwitch(dt)
    \/ \E dt \in PrecheckSteps : ScenarioBaseline(dt)
    \/ \E key \in ScenarioKeys : \E dt \in HoldSteps : ScenarioProduce(key, dt)

SpecScenario == InitScenario /\ [][NextScenario]_vars

\* ------------------------------------------------------------------------
\* SpecWriter: the threads in enqueue, statement by statement, and the flush
\* thread (SpecFlush)
\* ------------------------------------------------------------------------
InitWriter ==
    /\ EngineIdle
    /\ cfg = CfgFull
    /\ LatchIdle
    /\ WriterIdle
    /\ IngestIdle
    /\ LateIdle

\* time passes
Tick(dt) ==
    /\ clock + dt <= Epoch + MaxClock
    /\ clock' = clock + dt
    /\ UNCHANGED <<w_lock, w_buf, w_last, w_snaps, thr, fl, stored,
                   ctx_by_dev, ctxs, hist>>
    /\ UNCHANGED engineVars
    /\ UNCHANGED latchVars
    /\ UNCHANGED lateVars
    /\ UNCHANGED ingestVars

\* enqueue(d, p) entered: now_ts = time.time()
EnqueueCall(t, d, p) ==
    /\ thr[t].pc = "idle"
    /\ Len(hist.appended) < MaxRows
    /\ thr' = [thr EXCEPT ![t] = [IdleThread EXCEPT !.pc = "lock", !.dev = d,
                                                    !.p = p, !.now_ts = clock]]
    /\ UNCHANGED <<clock, w_lock, w_buf, w_last, w_snaps, fl, stored,
                   ctx_by_dev, ctxs, hist>>
    /\ UNCHANGED engineVars
    /\ UNCHANGED latchVars
    /\ UNCHANGED lateVars
    /\ UNCHANGED ingestVars

\* "with self._lock:" entered
EnqueueLock(t) ==
    /\ thr[t].pc = "lock"
    /\ w_lock = Free
    /\ w_lock' = t
    /\ thr' = [thr EXCEPT ![t].pc = "merge"]
    /\ UNCHANGED <<clock, w_buf, w_last, w_snaps, fl, stored,
                   ctx_by_dev, ctxs, hist>>
    /\ UNCHANGED engineVars
    /\ UNCHANGED latchVars
    /\ UNCHANGED lateVars
    /\ UNCHANGED ingestVars

\* the body of the with block: rate limit, merge, row, copy
EnqueueMerge(t) ==
    /\ thr[t].pc = "merge"
    /\ \E d \in {thr[t].dev} : \E last_ts \in {LastWrite(w_last, d)} :
          IF (thr[t].now_ts - last_ts) < min_interval_s
          THEN /\ w_snaps' = [w_snaps EXCEPT ![d] = MergeCoalesced(w_snaps[d], thr[t].p)]
               /\ w_lock' = Free
               /\ thr' = [thr EXCEPT ![t] = IdleThread]
               /\ hist' = [hist EXCEPT !.fresh[d] = Supplied(@, thr[t].p)]
               /\ UNCHANGED <<w_buf, w_last>>
          ELSE \E sn \in {Merge(w_snaps[d], thr[t].p)} :
               \E row \in {RowOf(d, thr[t].now_ts, sn)} :
               /\ w_snaps' = [w_snaps EXCEPT ![d] = sn]
               /\ w_buf' = Append(w_buf, row)
               /\ w_last' = [w_last EXCEPT ![d] = thr[t].now_ts]
               /\ hist' = [hist EXCEPT !.appended = Append(hist.appended, row),
                                       !.fresh[d] = Supplied(@, thr[t].p)]
               /\ w_lock' = LockAfterAppend(t)
               /\ thr' = [thr EXCEPT ![t].pc = "diag", ![t].copy = sn,
                                     ![t].p = IdleThread.p]
    /\ UNCHANGED <<clock, fl, stored, ctx_by_dev, ctxs>>
    /\ UNCHANGED engineVars
    /\ UNCHANGED latchVars
    /\ UNCHANGED lateVars
    /\ UNCHANGED ingestVars

\* the context evaluate works on when it finds c registered: _get_state
ContextFor(c, cs) == IF c = 0 THEN Len(cs) + 1 ELSE c

\* the contexts after _get_state found c registered for device d
ContextsWith(c, cs, d) ==
    IF c = 0 THEN Append(cs, [dev |-> d, passes |-> 0]) ELSE cs

\* _run_diagnosis as one step: config read, evaluate on the context of the
\* device, alarm rows, return
Diagnosis(t) ==
    /\ thr[t].pc = "diag"
    /\ \E d \in {thr[t].dev} : \E c \in {ContextFor(ctx_by_dev[d], ctxs)} :
       \E live \in {LiveOf(SnapArg(thr[t].copy, w_snaps[d]))} :
          /\ ctx_by_dev' = [ctx_by_dev EXCEPT ![d] = c]
          /\ ctxs' = [ContextsWith(ctx_by_dev[d], ctxs, d) EXCEPT
                         ![c].passes = @ + 1]
          /\ hist' = [hist EXCEPT !.evals =
                         @ \cup {[dev |-> d, ts |-> thr[t].now_ts, live |-> live]}]
    /\ thr' = [thr EXCEPT ![t] = IdleThread]
    /\ UNCHANGED <<clock, w_lock, w_buf, w_last, w_snaps, fl, stored>>
    /\ UNCHANGED engineVars
    /\ UNCHANGED latchVars
    /\ UNCHANGED lateVars
    /\ UNCHANGED ingestVars

\* _run: "while not self._stop.is_set()" passed; time.sleep(0.2);
\* now = time.time()
FlushWake ==
    /\ fl.pc = "sleep"
    /\ ~w_stop
    /\ fl' = [fl EXCEPT !.pc = "check_lock", !.now = clock]
    /\ UNCHANGED <<clock, w_lock, w_buf, w_last, w_snaps, thr, stored,
                   ctx_by_dev, ctxs, hist>>
    /\ UNCHANGED engineVars
    /\ UNCHANGED latchVars
    /\ UNCHANGED lateVars
    /\ UNCHANGED ingestVars

\* _run: "with self._lock:" entered
FlushCheckLock ==
    /\ fl.pc = "check_lock"
    /\ w_lock = Free
    /\ w_lock' = Flusher
    /\ fl' = [fl EXCEPT !.pc = "check"]
    /\ UNCHANGED <<clock, w_buf, w_last, w_snaps, thr, stored,
                   ctx_by_dev, ctxs, hist>>
    /\ UNCHANGED engineVars
    /\ UNCHANGED latchVars
    /\ UNCHANGED lateVars
    /\ UNCHANGED ingestVars

\* _run: do_flush decided from the batch length and the time since last_flush
FlushCheck ==
    /\ fl.pc = "check"
    /\ w_lock' = Free
    /\ fl' = [fl EXCEPT !.pc = IF DoFlush(Len(w_buf), fl.now, fl.last_flush)
                               THEN "flush_lock" ELSE "sleep"]
    /\ UNCHANGED <<clock, w_buf, w_last, w_snaps, thr, stored,
                   ctx_by_dev, ctxs, hist>>
    /\ UNCHANGED engineVars
    /\ UNCHANGED latchVars
    /\ UNCHANGED lateVars
    /\ UNCHANGED ingestVars

\* flush: "with self._lock:" entered
FlushLock ==
    /\ fl.pc = "flush_lock"
    /\ w_lock = Free
    /\ w_lock' = Flusher
    /\ fl' = [fl EXCEPT !.pc = "take"]
    /\ UNCHANGED <<clock, w_buf, w_last, w_snaps, thr, stored,
                   ctx_by_dev, ctxs, hist>>
    /\ UNCHANGED engineVars
    /\ UNCHANGED latchVars
    /\ UNCHANGED lateVars
    /\ UNCHANGED ingestVars

\* flush: return on an empty batch, else copy it and clear it
FlushTake ==
    /\ fl.pc = "take"
    /\ w_lock' = Free
    /\ IF w_buf = <<>>
       THEN /\ fl' = [fl EXCEPT !.pc = "sleep", !.last_flush = fl.now]
            /\ UNCHANGED w_buf
       ELSE /\ fl' = [fl EXCEPT !.pc = "insert", !.batch = FlushBatch(w_buf)]
            /\ w_buf' = <<>>
    /\ UNCHANGED <<clock, w_last, w_snaps, thr, stored, ctx_by_dev, ctxs, hist>>
    /\ UNCHANGED engineVars
    /\ UNCHANGED latchVars
    /\ UNCHANGED lateVars
    /\ UNCHANGED ingestVars

\* flush: insert_telemetry_batch commits; back in _run, last_flush = now
FlushInsert ==
    /\ fl.pc = "insert"
    /\ stored' = stored \o fl.batch
    /\ fl' = [fl EXCEPT !.pc = "sleep", !.batch = <<>>, !.last_flush = fl.now]
    /\ UNCHANGED <<clock, w_lock, w_buf, w_last, w_snaps, thr,
                   ctx_by_dev, ctxs, hist>>
    /\ UNCHANGED engineVars
    /\ UNCHANGED latchVars
    /\ UNCHANGED lateVars
    /\ UNCHANGED ingestVars

\* flush: insert_telemetry_batch raises; the exception leaves flush and _run
FlushInsertFail ==
    /\ fl.pc = "insert"
    /\ hist.fails < MaxFailures
    /\ fl' = [fl EXCEPT !.pc = "dead", !.batch = <<>>]
    /\ hist' = [hist EXCEPT !.fails = hist.fails + 1,
                            !.lost = hist.lost \o fl.batch]
    /\ UNCHANGED <<clock, w_lock, w_buf, w_last, w_snaps, thr, stored,
                   ctx_by_dev, ctxs>>
    /\ UNCHANGED engineVars
    /\ UNCHANGED latchVars
    /\ UNCHANGED lateVars
    /\ UNCHANGED ingestVars

NextWriter ==
    \/ \E dt \in TickSteps : Tick(dt)
    \/ \E t \in Callers : \E d \in Devices : \E p \in DevicePayloads(d) :
          EnqueueCall(t, d, p)
    \/ \E t \in Callers : EnqueueLock(t)
    \/ \E t \in Callers : EnqueueMerge(t)
    \/ \E t \in Callers : Diagnosis(t)

SpecWriter == InitWriter /\ [][NextWriter]_vars

\* a caller reports one flow reading
FlushCall(t, d) == EnqueueCall(t, d, TeleOnly("flow_perm", 1))

NextFlush ==
    \/ \E dt \in TickSteps : Tick(dt)
    \/ \E t \in Callers : \E d \in Devices : FlushCall(t, d)
    \/ \E t \in Callers : EnqueueLock(t)
    \/ \E t \in Callers : EnqueueMerge(t)
    \/ \E t \in Callers : Diagnosis(t)
    \/ FlushWake
    \/ FlushCheckLock
    \/ FlushCheck
    \/ FlushLock
    \/ FlushTake
    \/ FlushInsert
    \/ FlushInsertFail

SpecFlush == InitWriter /\ [][NextFlush]_vars

\* ------------------------------------------------------------------------
\* SpecStop: one caller, the flush thread and stop()
\* ------------------------------------------------------------------------
\* TelemetryWriter.stop: self._stop.set()
Stop ==
    /\ ~w_stop
    /\ w_stop' = TRUE
    /\ hist' = [hist EXCEPT !.at_stop = w_buf]
    /\ UNCHANGED <<clock, w_lock, w_buf, w_last, w_snaps, thr, fl, stored,
                   ctx_by_dev, ctxs>>
    /\ UNCHANGED <<devices, alarms, touch, ctx, wd>>
    /\ UNCHANGED engineVars
    /\ UNCHANGED latchVars
    /\ UNCHANGED lateVars

\* _run: "while not self._stop.is_set()" fails: the loop and the thread end
FlushExit ==
    /\ fl.pc = "sleep"
    /\ w_stop
    /\ fl' = [fl EXCEPT !.pc = "exited"]
    /\ UNCHANGED <<clock, w_lock, w_buf, w_last, w_snaps, thr, stored,
                   ctx_by_dev, ctxs, hist>>
    /\ UNCHANGED engineVars
    /\ UNCHANGED latchVars
    /\ UNCHANGED lateVars
    /\ UNCHANGED ingestVars

\* the thread of the MQTT callback
Callback == 1

NextStop ==
    \/ \E dt \in TickSteps : Tick(dt)
    \/ \E d \in Devices : FlushCall(Callback, d)
    \/ EnqueueLock(Callback)
    \/ EnqueueMerge(Callback)
    \/ Diagnosis(Callback)
    \/ FlushWake
    \/ FlushCheckLock
    \/ FlushCheck
    \/ FlushLock
    \/ FlushTake
    \/ FlushInsert
    \/ Stop
    \/ FlushExit

SpecStop == InitWriter /\ [][NextStop]_vars

\* ------------------------------------------------------------------------
\* SpecContain: the callback thread in enqueue, with diagnosis passes that fail
\* ------------------------------------------------------------------------
\* a dedup query that leaves out "Alarm.device_id == device_id"
AlarmsOf_all(tbl, d) == {[code |-> a.code, ts |-> a.ts] : a \in tbl}

\* the alarm rows of one device, as _alarm_recent selects them
AlarmsOf(tbl, d) ==
    {[code |-> a.code, ts |-> a.ts] : a \in {x \in tbl : x.device_id = d}}

\* rows of the alarms table for device d
RowsWith(d, S) ==
    {[device_id |-> d, code |-> a.code, ts |-> a.ts] : a \in S}

\* the two loops of _run_diagnosis over the keys of res.alarms and res.recs
StoreFor(tbl, d, keys, t) ==
    {x \in tbl : x.device_id # d}
        \cup RowsWith(d, StoreAlarms(AlarmsOf(tbl, d), keys, t))

\* the results evaluate hands back: nothing, a stop, a rule with its advice
PassResults ==
    {EmptyResult,
     [severity |-> SEV_INFO, alarms |-> <<"I_STOP">>, recs |-> <<>>],
     [severity |-> SEV_WARN, alarms |-> <<AlarmCode("F")>>,
      recs |-> <<RecCode("F")>>]}

\* the codes the two loops ask _alarm_recent about, in order
Candidates(r) == r.alarms \o [i \in DOMAIN r.recs |-> "REC_" \o r.recs[i]]

\* where a pass raises: nowhere, in SessionLocal() or get_config, inside
\* evaluate, or at the dedup query or the insert of a candidate
FailStages == {"none", "session", "evaluate", "store"}

\* a _run_diagnosis without "except Exception": the error leaves enqueue
ExceptClause_none(th) == [th EXCEPT !.pc = "raised"]

\* "except Exception as e: print(...)", "finally: db.close()", return
ExceptClause(th) == th

\* _run_diagnosis with its outcome: evaluate returns r unless the pass raised
\* before; with stage "store" the k-th candidate raises
DiagnosisPass(t, r, stage, k) ==
    /\ thr[t].pc = "diag"
    /\ stage # "none" => hist.fails < MaxFailures
    /\ IF stage = "store" THEN k \in 1..Len(Candidates(r)) ELSE k = 0
    /\ \E d \in {thr[t].dev} : \E c \in {ContextFor(ctx_by_dev[d], ctxs)} :
       \E keys \in {Candidates(r)} :
       \E kept \in {CASE stage = "none" -> keys
                      [] stage = "store" -> SubSeq(keys, 1, k - 1)
                      [] OTHER -> <<>>} :
       \E left \in {{keys[i] : i \in (Len(kept) + 1)..Len(keys)}} :
          /\ IF stage = "session" THEN UNCHANGED <<ctx_by_dev, ctxs>>
             ELSE /\ ctx_by_dev' = [ctx_by_dev EXCEPT ![d] = c]
                  /\ ctxs' = [ContextsWith(ctx_by_dev[d], ctxs, d) EXCEPT
                                ![c].passes = IF stage = "evaluate" THEN @
                                              ELSE @ + 1]
          /\ alarms' = StoreFor(alarms, d, kept, thr[t].now_ts)
          /\ hist' = [hist EXCEPT
                !.evals = IF stage \in {"none", "store"}
                          THEN @ \cup {[dev |-> d, ts |-> thr[t].now_ts,
                                        live |-> LiveOf(thr[t].copy)]}
                          ELSE @,
                !.fails = IF stage = "none" THEN @ ELSE @ + 1,
                !.dropped = IF stage \in {"none", "session", "evaluate"} THEN @
                            ELSE @ \cup {[device_id |-> d, code |-> x,
                                          ts |-> thr[t].now_ts] : x \in left}]
    /\ thr' = [thr EXCEPT ![t] = IF stage = "none" THEN IdleThread
                                 ELSE ExceptClause(IdleThread)]
    /\ UNCHANGED <<clock, w_lock, w_buf, w_last, w_snaps, fl, stored>>
    /\ UNCHANGED <<w_stop, devices, touch, ctx, wd>>
    /\ UNCHANGED engineVars
    /\ UNCHANGED latchVars
    /\ UNCHANGED lateVars

NextContain ==
    \/ \E dt \in TickSteps : Tick(dt)
    \/ \E d \in Devices : FlushCall(Callback, d)
    \/ EnqueueLock(Callback)
    \/ EnqueueMerge(Callback)
    \/ \E r \in PassResults : \E stage \in FailStages : \E k \in 0..2 :
          DiagnosisPass(Callback, r, stage, k)

SpecContain == InitWriter /\ [][NextContain]_vars

\* ------------------------------------------------------------------------
\* SpecCooldown: the alarm loops of _run_diagnosis over successive passes
\* ------------------------------------------------------------------------
\* seconds between two passes: inside, at the edge of and past the cooldown
CooldownSteps == {450, CooldownS, CooldownS + 1}

CooldownHorizon == Epoch + MaxCooldownSpans * CooldownS

\* the alarm and recommendation loops of one pass of device d, dt later
CooldownPass(d, r, dt) ==
    /\ clock + dt <= CooldownHorizon
    /\ clock' = clock + dt
    /\ alarms' = StoreFor(alarms, d, Candidates(r), clock + dt)
    /\ UNCHANGED <<w_lock, w_buf, w_last, w_snaps, thr, fl, stored,
                   ctx_by_dev, ctxs, hist>>
    /\ UNCHANGED <<w_stop, devices, touch, ctx, wd>>
    /\ UNCHANGED engineVars
    /\ UNCHANGED latchVars
    /\ UNCHANGED lateVars

NextCooldown ==
    \E d \in Devices : \E r \in PassResults : \E dt \in CooldownSteps :
       CooldownPass(d, r, dt)

SpecCooldown == InitWriter /\ [][NextCooldown]_vars

\* ------------------------------------------------------------------------
\* SpecPresence: the presence touch of the callback and the offline watchdog
\* ------------------------------------------------------------------------
\* seconds between two moments: half the offline threshold, and just over it
PresenceSteps == {OFFLINE_AFTER_S \div 2, OFFLINE_AFTER_S + 1}

PresenceHorizon == Epoch + MaxPresenceSpans * (OFFLINE_AFTER_S + 1)

\* time passes, between two scans: a scan takes less than a step
Elapse(dt) ==
    /\ wd.pc = "sleep"
    /\ clock + dt <= PresenceHorizon
    /\ clock' = clock + dt
    /\ UNCHANGED <<w_lock, w_buf, w_last, w_snaps, thr, fl, stored,
                   ctx_by_dev, ctxs, hist>>
    /\ UNCHANGED ingestVars
    /\ UNCHANGED engineVars
    /\ UNCHANGED latchVars
    /\ UNCHANGED lateVars

\* a message of device d arrives: _should_touch, _presence_touch_and_events
Touch(d) ==
    /\ \E r \in {Presence(touch, devices, alarms, d, clock)} :
          /\ touch' = r.touch
          /\ devices' = r.devices
          /\ alarms' = r.alarms
    /\ UNCHANGED <<w_stop, ctx, wd>>
    /\ UNCHANGED writerVars
    /\ UNCHANGED engineVars
    /\ UNCHANGED latchVars
    /\ UNCHANGED lateVars

\* _offline_watchdog: cutoff, stale = crud.list_devices_stale(db, cutoff)
ScanQuery ==
    /\ wd.pc = "sleep"
    /\ \E stale \in {list_devices_stale(devices, clock - OFFLINE_AFTER_S)} :
          wd' = IF stale = {} THEN IdleWatchdog
                ELSE [pc |-> "loop", stale |-> stale, rows |-> devices]
    /\ UNCHANGED <<w_stop, devices, alarms, touch, ctx>>
    /\ UNCHANGED writerVars
    /\ UNCHANGED engineVars
    /\ UNCHANGED latchVars
    /\ UNCHANGED lateVars

\* _offline_watchdog: one turn of "for dev in stale".  dev.status is the
\* attribute as the query loaded it or, once a commit has expired the
\* object, as the table holds it now
ScanDevice(d, status) ==
    /\ wd.pc = "loop"
    /\ d \in wd.stale
    /\ status \in {wd.rows[d].status, devices[d].status}
    /\ IF status # "OFFLINE"
       THEN /\ devices' = set_device_offline(devices, d)
            /\ alarms' = create_alarm(alarms, d, "DEVICE_OFFLINE", clock)
       ELSE UNCHANGED <<devices, alarms>>
    /\ wd' = IF wd.stale = {d} THEN IdleWatchdog
             ELSE [wd EXCEPT !.stale = @ \ {d}]
    /\ UNCHANGED <<w_stop, touch, ctx>>
    /\ UNCHANGED writerVars
    /\ UNCHANGED engineVars
    /\ UNCHANGED latchVars
    /\ UNCHANGED lateVars

Statuses == {"PENDING", "ONLINE", "OFFLINE"}

NextPresence ==
    \/ \E dt \in PresenceSteps : Elapse(dt)
    \/ \E d \in Devices : Touch(d)
    \/ ScanQuery
    \/ \E d \in Devices : \E status \in Statuses : ScanDevice(d, status)

SpecPresence == InitWriter /\ [][NextPresence]_vars

\* ------------------------------------------------------------------------
\* SpecIngest: the messages the MQTT client hands to _on_message, one at a
\* time; d1 is registered, d2 is not
\* ------------------------------------------------------------------------
Tenant == "t1"

\* the messages of device d, topic as topic.split("/") gives it and payload
\* bytes: tele on a known field with 530, true, "text", {"v": 530},
\* {"value": 530}, {"v": "text"}, bytes that are no JSON and no bytes; tele
\* without a field and on an unknown field; state with {"pump_low": 1}, 530
\* and no JSON; event with {"name": "ACK"}, {"name": "text"}, an object
\* without name and 530; another kind; three segments; another root
MessagesOf(d) ==
    {[topic |-> <<TOPIC_ROOT, Tenant, d, "tele", "flow_perm">>, raw |-> raw] :
        raw \in {RawJson(Scalar(530)), RawJson(Scalar(JTrue)),
                 RawJson(Scalar(NaS)), RawJson(Object1("v", 530)),
                 RawJson(Object1("value", 530)), RawJson(Object1("v", NaS)),
                 RawGarbage, RawEmpty}}
    \cup
    {[topic |-> <<TOPIC_ROOT, Tenant, d, "state">>, raw |-> raw] :
        raw \in {RawJson(Object1("pump_low", 1)), RawJson(Scalar(530)),
                 RawGarbage}}
    \cup
    {[topic |-> <<TOPIC_ROOT, Tenant, d, "event">>, raw |-> raw] :
        raw \in {RawJson(Object1("name", StrACK)), RawJson(Object1("name", NaS)),
                 RawJson(Object1("pump_low", 1)), RawJson(Scalar(530))}}
    \cup
    {[topic |-> topic, raw |-> RawJson(Scalar(530))] :
        topic \in {<<TOPIC_ROOT, Tenant, d, "tele">>,
                   <<TOPIC_ROOT, Tenant, d, "tele", "bogus">>,
                   <<TOPIC_ROOT, Tenant, d, "cmd">>,
                   <<TOPIC_ROOT, Tenant, d>>,
                   <<"other", Tenant, d, "tele", "flow_perm">>}}

Messages == UNION {MessagesOf(d) : d \in Devices}

\* a message _on_message returns on without a call
NoDelivery ==
    [ingest |-> FALSE, enqueue |-> FALSE, ack |-> FALSE,
     p |-> TeleOnly("none", Absent)]

\* the branches of _on_message on kind: what is handed to engine.ingest and
\* telemetry_writer.enqueue, and whether the event is an ACK
Delivery(parts, payload) ==
    CASE parts.kind = "tele" ->
            IF parts.rest = <<>> THEN NoDelivery
            ELSE IF parts.rest[1] \notin TELE_KEYS THEN NoDelivery
            ELSE IF _tele_value(payload) = None THEN NoDelivery
            ELSE [ingest |-> TRUE, enqueue |-> TRUE, ack |-> FALSE,
                  p |-> TeleOnly(parts.rest[1], _tele_value(payload))]
      [] parts.kind = "state" ->
            IF payload.kind # "object" THEN NoDelivery
            ELSE [ingest |-> TRUE, enqueue |-> TRUE, ack |-> FALSE,
                  p |-> [k \in STATE_KEYS |-> payload.obj[k]]]
      [] parts.kind = "event" ->
            IF payload.kind = "object" /\ payload.obj["name"] # Absent
            THEN [ingest |-> TRUE, enqueue |-> FALSE,
                  ack |-> payload.obj["name"] = StrACK,
                  p |-> TeleOnly("none", Absent)]
            ELSE NoDelivery
      [] OTHER -> NoDelivery

\* TelemetryWriter.enqueue run to its end by the one thread that calls it;
\* of _run_diagnosis, as in SpecWriter, the context and the evaluation made
\* (the rows it stores: SpecContain, SpecCooldown)
Enqueue(d, p, tbl) ==
    \E last_ts \in {LastWrite(w_last, d)} :
       IF (clock - last_ts) < min_interval_s
       THEN /\ w_snaps' = [w_snaps EXCEPT ![d] = MergeCoalesced(w_snaps[d], p)]
            /\ hist' = [hist EXCEPT !.fresh[d] = Supplied(@, p)]
            /\ alarms' = tbl
            /\ UNCHANGED <<w_buf, w_last, ctx_by_dev, ctxs>>
       ELSE \E sn \in {Merge(w_snaps[d], p)} : \E row \in {RowOf(d, clock, sn)} :
            \E c \in {ContextFor(ctx_by_dev[d], ctxs)} :
               /\ w_snaps' = [w_snaps EXCEPT ![d] = sn]
               /\ w_buf' = Append(w_buf, row)
               /\ w_last' = [w_last EXCEPT ![d] = clock]
               /\ ctx_by_dev' = [ctx_by_dev EXCEPT ![d] = c]
               /\ ctxs' = [ContextsWith(ctx_by_dev[d], ctxs, d) EXCEPT
                              ![c].passes = @ + 1]
               /\ hist' = [hist EXCEPT
                              !.appended = Append(hist.appended, row),
                              !.fresh[d] = Supplied(@, p),
                              !.evals = @ \cup {[dev |-> d, ts |-> clock,
                                                 live |-> LiveOf(sn)]}]
               /\ alarms' = tbl

\* _on_message(client, userdata, msg)
OnMessage(topic, raw) ==
    /\ Len(hist.appended) < MaxRows
    /\ \E parts \in {_extract_parts(topic)} :
       IF ~parts.ok
       THEN UNCHANGED <<devices, alarms, touch, ctx, w_buf, w_last, w_snaps,
                        ctx_by_dev, ctxs, hist>>
       ELSE \E d \in {parts.device_id} :
            \E pr \in {Presence(touch, devices, alarms, d, clock)} :
            \E dl \in {Delivery(parts, _decode_payload(raw))} :
               /\ touch' = pr.touch
               /\ devices' = pr.devices
               /\ ctx' = IF dl.ingest THEN ctx \cup {d} ELSE ctx
               /\ IF dl.enqueue
                  THEN Enqueue(d, dl.p, pr.alarms)
                  ELSE /\ alarms' = IF dl.ack
                                    THEN create_alarm(pr.alarms, d, "CMD_ACK", clock)
                                    ELSE pr.alarms
                       /\ UNCHANGED <<w_buf, w_last, w_snaps, ctx_by_dev, ctxs,
                                      hist>>
    /\ UNCHANGED <<clock, w_lock, thr, fl, stored, w_stop, wd>>
    /\ UNCHANGED engineVars
    /\ UNCHANGED latchVars
    /\ UNCHANGED lateVars

\* the registry holds d1 only
InitIngest ==
    /\ EngineIdle
    /\ cfg = CfgFull
    /\ LatchIdle
    /\ WriterIdle
    /\ w_stop = FALSE
    /\ devices = [d \in Devices |-> IF d = "d1" THEN NewDevice ELSE NoDevice]
    /\ alarms = {}
    /\ touch = [d \in Devices |-> None]
    /\ ctx = {}
    /\ wd = IdleWatchdog
    /\ LateIdle

\* between two messages no time passes, or the rate limit of the writer
IngestSteps == {min_interval_s}

NextIngest ==
    \/ \E dt \in IngestSteps : Tick(dt)
    \/ \E m \in Messages : OnMessage(m.topic, m.raw)

SpecIngest == InitIngest /\ [][NextIngest]_vars

\* ------------------------------------------------------------------------
\* SpecSampler: one FixedWindowSampler, called with any timestamps and values
\* ------------------------------------------------------------------------
\* window lengths in seconds
Windows == {1, 2, 3}

\* what add is handed as value: None, a string that is no number, numbers
SampleValues == {None, NaS, 1, 3}

SampleTimes == 0..MaxSampleTime

InitSampler ==
    /\ EngineIdle
    /\ cfg = CfgFull
    /\ LatchIdle
    /\ WriterIdle
    /\ IngestIdle
    /\ smp \in {[s |-> NewSampler(W), adds |-> <<>>] : W \in Windows}
    /\ leg = 0
    /\ mq = 0
    /\ pres = 0

\* sampler.add(ts, value)
AddSample(ts, value) ==
    /\ Len(smp.adds) < MaxAdds
    /\ smp' = [s |-> SamplerAdd(smp.s, ts, value),
               adds |-> Append(smp.adds, [ts |-> ts, v |-> value])]
    /\ UNCHANGED <<leg, mq, pres>>
    /\ UNCHANGED engineVars
    /\ UNCHANGED latchVars
    /\ UNCHANGED writerVars
    /\ UNCHANGED ingestVars

\* sampler.reset()
ResetSampler ==
    /\ smp.adds # <<>>
    /\ smp' = [s |-> SamplerReset(smp.s), adds |-> <<>>]
    /\ UNCHANGED <<leg, mq, pres>>
    /\ UNCHANGED engineVars
    /\ UNCHANGED latchVars
    /\ UNCHANGED writerVars
    /\ UNCHANGED ingestVars

NextSampler ==
    \/ \E ts \in SampleTimes : \E value \in SampleValues : AddSample(ts, value)
    \/ ResetSampler

SpecSampler == InitSampler /\ [][NextSampler]_vars

\* ------------------------------------------------------------------------
\* SpecTransport: the two MQTT listeners of the repository and their broker.
\* "ingestor" is mqtt_ingestor.start_mqtt, "main" is main.start_mqtt.  Of the
\* paho client: connect() raises when the broker cannot be reached,
\* loop_forever() reconnects by itself after a loss and calls on_connect, and
\* a new connection starts without subscriptions
\* ------------------------------------------------------------------------
Programs == {"ingestor", "main"}

\* a client before the thread of the listener runs client.connect
NewClient == [pc |-> "connect", connected |-> FALSE, subscribed |-> FALSE,
              fails |-> 0]

InitTransport ==
    /\ EngineIdle
    /\ cfg = CfgFull
    /\ LatchIdle
    /\ WriterIdle
    /\ IngestIdle
    /\ smp = 0
    /\ leg = 0
    /\ mq \in {[up |-> u, cl |-> [p \in Programs |-> NewClient]] : u \in BOOLEAN}
    /\ pres = 0

\* everything but the clients and the broker
TransportFrame ==
    /\ UNCHANGED <<smp, leg, pres>>
    /\ UNCHANGED engineVars
    /\ UNCHANGED latchVars
    /\ UNCHANGED writerVars
    /\ UNCHANGED ingestVars

\* the broker becomes reachable or unreachable
BrokerFlip ==
    /\ mq' = [mq EXCEPT !.up = ~mq.up]
    /\ TransportFrame

\* mqtt_ingestor.start_mqtt, _run: client.connect(...) and, on CONNACK,
\* _on_connect with its three subscribe calls; an exception of connect is
\* caught nowhere and ends the thread
IngestorConnect ==
    /\ mq.cl["ingestor"].pc = "connect"
    /\ mq' = IF mq.up
             THEN [mq EXCEPT !.cl["ingestor"] =
                      [@ EXCEPT !.pc = "loop", !.connected = TRUE,
                                !.subscribed = TRUE]]
             ELSE [mq EXCEPT !.cl["ingestor"] =
                      [@ EXCEPT !.pc = "dead", !.fails = @ + 1]]
    /\ TransportFrame

\* main.start_mqtt, the try block: connect, subscribe, loop_forever; the
\* except clause logs and sleeps 5 s
MainConnect ==
    /\ mq.cl["main"].pc = "connect"
    /\ ~mq.up => mq.cl["main"].fails < MaxAttempts
    /\ mq' = IF mq.up
             THEN [mq EXCEPT !.cl["main"] =
                      [@ EXCEPT !.pc = "loop", !.connected = TRUE,
                                !.subscribed = TRUE]]
             ELSE [mq EXCEPT !.cl["main"] =
                      [@ EXCEPT !.pc = "sleep", !.fails = @ + 1]]
    /\ TransportFrame

\* main.start_mqtt: time.sleep(5) is over, "while True" again
MainSleep ==
    /\ mq.cl["main"].pc = "sleep"
    /\ mq' = [mq EXCEPT !.cl["main"].pc = "connect"]
    /\ TransportFrame

\* the connection of a client in loop_forever is lost
Lost(p) ==
    /\ mq.cl[p].pc = "loop"
    /\ mq.cl[p].connected
    /\ ~mq.up
    /\ mq' = [mq EXCEPT !.cl[p].connected = FALSE, !.cl[p].subscribed = FALSE]
    /\ TransportFrame

\* loop_forever tries again: on success on_connect is called, which
\* subscribes in the ingestor and which main does not set
LoopReconnect(p) ==
    /\ mq.cl[p].pc = "loop"
    /\ ~mq.cl[p].connected
    /\ ~mq.up => mq.cl[p].fails < MaxAttempts
    /\ mq' = IF mq.up
             THEN [mq EXCEPT !.cl[p].connected = TRUE,
                             !.cl[p].subscribed = (p = "ingestor")]
             ELSE [mq EXCEPT !.cl[p].fails = @ + 1]
    /\ TransportFrame

NextTransport ==
    \/ BrokerFlip
    \/ IngestorConnect
    \/ MainConnect
    \/ MainSleep
    \/ \E p \in Programs : Lost(p)
    \/ \E p \in Programs : LoopReconnect(p)

\* a thread that can take its next statement takes it
SpecTransport ==
    /\ InitTransport
    /\ [][NextTransport]_vars
    /\ WF_vars(IngestorConnect)
    /\ WF_vars(MainConnect)
    /\ WF_vars(MainSleep)
    /\ \A p \in Programs : WF_vars(Lost(p)) /\ WF_vars(LoopReconnect(p))

\* ------------------------------------------------------------------------
\* engine.DiagnosticEngine: the context of one device, its configuration and
\* evaluate.  Pressures in hundredths of a bar, time in seconds
\* ------------------------------------------------------------------------
LegacyCodes ==
    {"PRESSURE_HIGH_INSTANT", "START_RETRY", "SEDIMENT_FILTER_DIRTY",
     "NO_WATER_FEED", "MEMBRANE_FOULING", "FLUSH_VALVE_OR_NEEDLE",
     "PERMEATE_COND_HIGH"}

\* DeviceContext(): the defaults of the dataclass.  raised is history: the
\* codes of the rows crud.create_alarm stored during the last call of ingest
NewContext ==
    [mode |-> "IDLE", start_ts |-> None, last_eval_ts |-> 0, retries |-> 0,
     retry_last_ts |-> 0,
     tele |-> [presostat_low |-> 0, pressure_inter |-> 0, flow_perm |-> 0,
               flow_reject |-> 0, conductivity_perm |-> 0],
     state |-> [float_call |-> 0, valve_feed |-> 0, pump_low |-> 0,
                pump_high |-> 0],
     pressure_stable_ts |-> None, cond_ok_to_eval_ts |-> None,
     last_alarm_ts |-> [code \in LegacyCodes |-> None],
     raised |-> {}]

\* a DeviceConfig row: the defaults of models.py for the waits and the
\* transducer threshold, 3 minutes of conductivity ramp, and nominal values
\* that switch the production rules on
LegacyCfg ==
    [start_wait_presostat_s |-> 30, stabilize_pressure_s |-> 120,
     cond_ignore_minutes |-> 3, high_pressure_instant_pct |-> 30,
     high_pressure_instant_s |-> 20, p_transducer_threshold |-> 10,
     p_inter_nom |-> 200, flow_perm_min |-> 400, flow_perm_max |-> 600,
     flow_rej_min |-> 150, flow_rej_max |-> 250, cond_perm_max |-> 100]

\* _cooldown_ok: last_alarm_ts.get(code, 0.0) is 0.0 for a code never
\* raised, far more than any cooldown before time.time()
_cooldown_ok(c, code, cooldown_s, t) ==
    c.last_alarm_ts[code] = None \/ (t - c.last_alarm_ts[code]) >= cooldown_s

\* an alarm that is raised whatever was raised before
_raise_alarm_always(c, code, cooldown_s, t) ==
    [c EXCEPT !.last_alarm_ts[code] = t, !.raised = @ \cup {code}]

\* _raise_alarm: crud.create_alarm and last_alarm_ts[code] = now
_raise_alarm(c, code, cooldown_s, t) ==
    IF ~_cooldown_ok(c, code, cooldown_s, t) THEN c
    ELSE [c EXCEPT !.last_alarm_ts[code] = t, !.raised = @ \cup {code}]

\* _start_session
_start_session(c, t) ==
    [c EXCEPT !.mode = "STARTING", !.start_ts = t, !.retries = 0,
              !.retry_last_ts = 0, !.pressure_stable_ts = t,
              !.cond_ok_to_eval_ts = t]

\* _end_session
_end_session(c) ==
    [c EXCEPT !.mode = "IDLE", !.start_ts = None, !.pressure_stable_ts = None,
              !.cond_ok_to_eval_ts = None, !.retries = 0, !.retry_last_ts = 0]

\* evaluate: "set gates de tiempo una sola vez por sesion"
LegacyGates(c, k) ==
    [c EXCEPT
        !.pressure_stable_ts =
            IF c.start_ts # None /\ @ = None
            THEN c.start_ts + k.stabilize_pressure_s ELSE @,
        !.cond_ok_to_eval_ts =
            IF c.start_ts # None /\ @ = None
            THEN c.start_ts + k.cond_ignore_minutes * 60 ELSE @]

\* evaluate: the instantaneous high-pressure rule
LegacyInstant(c, k, t) ==
    LET high_thr == IF k.p_inter_nom > 0
                    THEN (k.p_inter_nom * (100 + k.high_pressure_instant_pct)) \div 100
                    ELSE 0
    IN  IF /\ c.start_ts # None
           /\ high_thr > 0
           /\ c.tele.pressure_inter >= high_thr
           /\ (t - c.start_ts) >= k.high_pressure_instant_s
        THEN _raise_alarm(c, "PRESSURE_HIGH_INSTANT", 180, t)
        ELSE c

\* evaluate: mode STARTING
LegacyStarting(c, k, t) ==
    IF c.start_ts # None /\ (t - c.start_ts) < k.start_wait_presostat_s THEN c
    ELSE IF c.tele.presostat_low = 1 THEN [c EXCEPT !.mode = "PRODUCTION"]
    ELSE IF (t - c.retry_last_ts) < 30 THEN c
    ELSE LET c1 == [c EXCEPT !.retries = @ + 1, !.retry_last_ts = t]
         IN  IF c1.retries < 3 THEN _raise_alarm(c1, "START_RETRY", 5, t)
             ELSE [(IF c1.tele.pressure_inter > k.p_transducer_threshold
                    THEN _raise_alarm(c1, "SEDIMENT_FILTER_DIRTY", 300, t)
                    ELSE _raise_alarm(c1, "NO_WATER_FEED", 300, t))
                   EXCEPT !.mode = "LOCKOUT"]

\* evaluate: mode PRODUCTION
LegacyProduction(c, k, t) ==
    IF ~(c.state.valve_feed = 1 /\ c.state.pump_low = 1 /\ c.state.pump_high = 1)
    THEN c
    ELSE IF c.pressure_stable_ts # None /\ t < c.pressure_stable_ts THEN c
    ELSE
    LET rej_normal == IF k.flow_rej_max > 0
                      THEN k.flow_rej_min <= c.tele.flow_reject
                           /\ c.tele.flow_reject <= k.flow_rej_max
                      ELSE TRUE
        perm_low == IF k.flow_perm_min > 0
                    THEN c.tele.flow_perm < k.flow_perm_min ELSE FALSE
        perm_normal == IF k.flow_perm_max > 0
                       THEN k.flow_perm_min <= c.tele.flow_perm
                            /\ c.tele.flow_perm <= k.flow_perm_max
                       ELSE TRUE
        high_thr == IF k.p_inter_nom > 0 THEN (k.p_inter_nom * 130) \div 100 ELSE 0
        low_thr == IF k.p_inter_nom > 0 THEN (k.p_inter_nom * 70) \div 100 ELSE 0
        rej_high == IF k.flow_rej_max > 0
                    THEN c.tele.flow_reject > k.flow_rej_max ELSE FALSE
        c1 == IF /\ c.tele.presostat_low = 1
                 /\ high_thr > 0
                 /\ c.tele.pressure_inter >= high_thr
                 /\ perm_low
                 /\ rej_normal
              THEN _raise_alarm(c, "MEMBRANE_FOULING", 300, t) ELSE c
        c2 == IF /\ c.tele.presostat_low = 1
                 /\ low_thr > 0
                 /\ c.tele.pressure_inter <= low_thr
                 /\ perm_low
                 /\ rej_high
              THEN _raise_alarm(c1, "FLUSH_VALVE_OR_NEEDLE", 300, t) ELSE c1
    IN  IF /\ c.cond_ok_to_eval_ts # None
           /\ t >= c.cond_ok_to_eval_ts
           /\ k.cond_perm_max > 0
           /\ c.tele.conductivity_perm > k.cond_perm_max
           /\ perm_normal
           /\ rej_normal
        THEN _raise_alarm(c2, "PERMEATE_COND_HIGH", 300, t) ELSE c2

\* DiagnosticEngine.evaluate for a device that has a context and a
\* configuration row
LegacyEvaluate(c, k, t) ==
    IF t - c.last_eval_ts < 1 THEN c
    ELSE LET c0 == LegacyGates([c EXCEPT !.last_eval_ts = t], k)
         IN  IF c0.state.float_call = 0 THEN c0
             ELSE LET c1 == LegacyInstant(c0, k, t)
                  IN  IF c1.mode = "STARTING" THEN LegacyStarting(c1, k, t)
                      ELSE IF c1.mode = "PRODUCTION"
                           THEN LegacyProduction(c1, k, t)
                           ELSE c1

\* ingest: the session detected from the state float_call
LegacySessions(c, t) ==
    LET c1 == IF c.state.float_call = 1 /\ c.mode = "IDLE"
              THEN _start_session(c, t) ELSE c
    IN  IF c1.state.float_call = 0 /\ c1.mode \in {"STARTING", "PRODUCTION"}
        THEN _end_session(c1) ELSE c1

\* ingest: the two events
LegacyEvents(c, name, t) ==
    LET c1 == IF name = "float_call_start" THEN _start_session(c, t) ELSE c
    IN  IF name = "tank_full" THEN _end_session(c1) ELSE c1

\* DiagnosticEngine.ingest(device_id, tele, state, event) at time t, with
\* tele and state merged into the caches of c beforehand
LegacyIngest(c, name, k, t) ==
    LegacyEvaluate(LegacySessions(LegacyEvents([c EXCEPT !.raised = {}], name, t),
                                  t), k, t)

\* ------------------------------------------------------------------------
\* SpecLegacy: the messages of one device through DiagnosticEngine.ingest
\* ------------------------------------------------------------------------
\* seconds between two messages; 0 is a message within the throttle of
\* evaluate
LegacySteps == {0, 10, 30}

\* telemetry payloads of a start: the pressure switch, the inter-membrane
\* pressure below the transducer threshold and above the high threshold
LegacyTeles ==
    {<<"presostat_low", 0>>, <<"presostat_low", 1>>,
     <<"pressure_inter", 0>>, <<"pressure_inter", 270>>}

\* state payloads of a start
LegacyStates == {<<"float_call", 0>>, <<"float_call", 1>>}

LegacyEventNames == {"float_call_start", "tank_full"}

InitLegacy ==
    /\ EngineIdle
    /\ cfg = CfgFull
    /\ LatchIdle
    /\ WriterIdle
    /\ IngestIdle
    /\ smp = 0
    /\ leg = [now |-> Epoch, c |-> NewContext]
    /\ mq = 0
    /\ pres = 0

LegacyFrame ==
    /\ UNCHANGED <<smp, mq, pres>>
    /\ UNCHANGED engineVars
    /\ UNCHANGED latchVars
    /\ UNCHANGED writerVars
    /\ UNCHANGED ingestVars

\* ingest at the time of the message
LegacyStep(c, name, dt) ==
    /\ leg.now + dt <= Epoch + MaxLegacyTime
    /\ leg' = [now |-> leg.now + dt,
               c |-> LegacyIngest(c, name, LegacyCfg, leg.now + dt)]
    /\ LegacyFrame

\* a telemetry message: c.tele.update(tele)
LegacyTele(kv, dt) ==
    LegacyStep([leg.c EXCEPT !.tele[kv[1]] = kv[2]], "", dt)

\* a state message: c.state.update(state); running stands for the keys
\* valve_feed, pump_low and pump_high in one payload
LegacyState(kv, dt) ==
    LegacyStep(IF kv[1] = "running"
               THEN [leg.c EXCEPT !.state.valve_feed = kv[2],
                                  !.state.pump_low = kv[2],
                                  !.state.pump_high = kv[2]]
               ELSE [leg.c EXCEPT !.state[kv[1]] = kv[2]], "", dt)

\* an event message
LegacyEvent(name, dt) ==
    LegacyStep(leg.c, name, dt)

NextLegacy ==
    \/ \E kv \in LegacyTeles, dt \in LegacySteps : LegacyTele(kv, dt)
    \/ \E kv \in LegacyStates, dt \in LegacySteps : LegacyState(kv, dt)
    \/ \E name \in LegacyEventNames, dt \in LegacySteps : LegacyEvent(name, dt)

SpecLegacy == InitLegacy /\ [][NextLegacy]_vars

\* ------------------------------------------------------------------------
\* SpecGates: the legacy engine in production
\* ------------------------------------------------------------------------
GateSteps == {0, 30}

\* the pressure switch closes; inter-membrane pressure low and high; low and
\* normal permeate flow, normal and high reject flow, high conductivity
GateTeles ==
    {<<"presostat_low", 1>>,
     <<"pressure_inter", 0>>, <<"pressure_inter", 270>>,
     <<"flow_perm", 300>>, <<"flow_perm", 500>>,
     <<"flow_reject", 200>>, <<"flow_reject", 300>>,
     <<"conductivity_perm", 150>>}

GateStates == {<<"float_call", 0>>, <<"float_call", 1>>, <<"running", 1>>}

NextGates ==
    \/ \E kv \in GateTeles, dt \in GateSteps : LegacyTele(kv, dt)
    \/ \E kv \in GateStates, dt \in GateSteps : LegacyState(kv, dt)

SpecGates == InitLegacy /\ [][NextGates]_vars

\* ------------------------------------------------------------------------
\* SpecRace: the presence touch and the scan of the watchdog, one database
\* transaction at a time
\* ------------------------------------------------------------------------
\* the callback thread between two messages
IdleTouch == [pc |-> "idle", d |-> "", first_seen |-> FALSE, prev_status |-> "NONE"]

InitRace ==
    /\ EngineIdle
    /\ cfg = CfgFull
    /\ LatchIdle
    /\ WriterIdle
    /\ IngestIdle
    /\ smp = 0
    /\ leg = 0
    /\ mq = 0
    /\ pres = [m |-> IdleTouch, marked |-> "", log |-> [d \in Devices |-> <<>>]]

RaceFrame ==
    /\ UNCHANGED <<smp, leg, mq, w_stop, ctx>>
    /\ UNCHANGED writerVars
    /\ UNCHANGED engineVars
    /\ UNCHANGED latchVars

\* time passes while the watchdog sleeps and no message is being handled
RaceElapse(dt) ==
    /\ pres.m.pc = "idle"
    /\ UNCHANGED pres
    /\ Elapse(dt)

\* a message of device d: _should_touch, then touch_device_seen up to
\* "prev_status = dev.status"
TouchRead(d) ==
    /\ pres.m.pc = "idle"
    /\ _should_touch(touch, d, clock)
    /\ devices[d] # NoDevice
    /\ touch' = [touch EXCEPT ![d] = clock]
    /\ pres' = [pres EXCEPT !.m = [pc |-> "commit", d |-> d,
                                   first_seen |-> devices[d].last_seen = None,
                                   prev_status |-> devices[d].status]]
    /\ UNCHANGED <<devices, alarms, wd>>
    /\ RaceFrame

\* touch_device_seen: last_seen, status = "ONLINE", db.commit().  written
\* is whether the UPDATE carries the column status when the value read was
\* "ONLINE" already
TouchCommit(written) ==
    /\ pres.m.pc = "commit"
    /\ written \/ pres.m.prev_status = "ONLINE"
    /\ devices' = [devices EXCEPT ![pres.m.d] =
                      [status |-> IF written THEN "ONLINE" ELSE @.status,
                       last_seen |-> clock]]
    /\ pres' = [pres EXCEPT !.m = IF pres.m.first_seen \/ pres.m.prev_status = "OFFLINE"
                                  THEN [@ EXCEPT !.pc = "alarm"]
                                  ELSE IdleTouch]
    /\ UNCHANGED <<alarms, touch, wd>>
    /\ RaceFrame

\* _presence_touch_and_events: crud.create_alarm_simple
TouchAlarm ==
    /\ pres.m.pc = "alarm"
    /\ \E code \in {IF pres.m.first_seen THEN "DEVICE_FIRST_SEEN"
                    ELSE "DEVICE_RECONNECTED"} :
          /\ alarms' = create_alarm(alarms, pres.m.d, code, clock)
          /\ pres' = [pres EXCEPT !.m = IdleTouch,
                                  !.log[pres.m.d] = Append(@, code)]
    /\ UNCHANGED <<devices, touch, wd>>
    /\ RaceFrame

\* _offline_watchdog: "if dev.status != 'OFFLINE'" and
\* crud.set_device_offline
RaceMark(d, status) ==
    /\ wd.pc = "loop"
    /\ d \in wd.stale
    /\ status \in {wd.rows[d].status, devices[d].status}
    /\ IF status # "OFFLINE"
       THEN /\ devices' = set_device_offline(devices, d)
            /\ wd' = [wd EXCEPT !.pc = "alarm"]
            /\ pres' = [pres EXCEPT !.marked = d]
       ELSE /\ wd' = IF wd.stale = {d} THEN IdleWatchdog
                     ELSE [wd EXCEPT !.stale = @ \ {d}]
            /\ UNCHANGED <<devices, pres>>
    /\ UNCHANGED <<alarms, touch>>
    /\ RaceFrame

\* _offline_watchdog: crud.create_alarm_simple(..., code="DEVICE_OFFLINE")
RaceAlarm ==
    /\ wd.pc = "alarm"
    /\ alarms' = create_alarm(alarms, pres.marked, "DEVICE_OFFLINE", clock)
    /\ pres' = [pres EXCEPT !.marked = "",
                            !.log[pres.marked] = Append(@, "DEVICE_OFFLINE")]
    /\ wd' = IF wd.stale = {pres.marked} THEN IdleWatchdog
             ELSE [wd EXCEPT !.pc = "loop", !.stale = @ \ {pres.marked}]
    /\ UNCHANGED <<devices, touch>>
    /\ RaceFrame

NextRace ==
    \/ \E dt \in PresenceSteps : RaceElapse(dt)
    \/ \E d \in Devices : TouchRead(d)
    \/ \E written \in BOOLEAN : TouchCommit(written)
    \/ TouchAlarm
    \/ ScanQuery
    \/ \E d \in Devices : \E status \in Statuses : RaceMark(d, status)
    \/ RaceAlarm

SpecRace == InitRace /\ [][NextRace]_vars

\* ------------------------------------------------------------------------
\* SpecEval: the threads in enqueue, with evaluate statement by statement
\* ------------------------------------------------------------------------
\* _run_diagnosis up to the call of evaluate: session, config read, cfg, live
DiagConfig(t) ==
    /\ thr[t].pc = "diag"
    /\ thr' = [thr EXCEPT ![t].pc = "get_state",
                          ![t].live = LiveOf(SnapArg(thr[t].copy,
                                                     w_snaps[thr[t].dev]))]
    /\ UNCHANGED <<clock, w_lock, w_buf, w_last, w_snaps, fl, stored,
                   ctx_by_dev, ctxs, hist>>
    /\ UNCHANGED engineVars
    /\ UNCHANGED latchVars
    /\ UNCHANGED lateVars
    /\ UNCHANGED ingestVars

\* _get_state: st = self._st_by_dev.get(device_id)
EvalGetState(t) ==
    /\ thr[t].pc = "get_state"
    /\ thr' = [thr EXCEPT ![t].ref = ctx_by_dev[thr[t].dev],
                          ![t].pc = IF ctx_by_dev[thr[t].dev] = 0
                                    THEN "create" ELSE "read"]
    /\ UNCHANGED <<clock, w_lock, w_buf, w_last, w_snaps, fl, stored,
                   ctx_by_dev, ctxs, hist>>
    /\ UNCHANGED engineVars
    /\ UNCHANGED latchVars
    /\ UNCHANGED lateVars
    /\ UNCHANGED ingestVars

\* _get_state: "if st is None": a new context dict, stored for the device
EvalCreate(t) ==
    /\ thr[t].pc = "create"
    /\ ctxs' = Append(ctxs, [dev |-> thr[t].dev, passes |-> 0])
    /\ ctx_by_dev' = [ctx_by_dev EXCEPT ![thr[t].dev] = Len(ctxs) + 1]
    /\ thr' = [thr EXCEPT ![t].ref = Len(ctxs) + 1, ![t].pc = "read"]
    /\ UNCHANGED <<clock, w_lock, w_buf, w_last, w_snaps, fl, stored, hist>>
    /\ UNCHANGED engineVars
    /\ UNCHANGED latchVars
    /\ UNCHANGED lateVars
    /\ UNCHANGED ingestVars

\* evaluate: eng = st.get("eng_state"), and the other reads of the context
EvalRead(t) ==
    /\ thr[t].pc = "read"
    /\ thr' = [thr EXCEPT ![t].eng = ctxs[thr[t].ref].passes, ![t].pc = "write"]
    /\ UNCHANGED <<clock, w_lock, w_buf, w_last, w_snaps, fl, stored,
                   ctx_by_dev, ctxs, hist>>
    /\ UNCHANGED engineVars
    /\ UNCHANGED latchVars
    /\ UNCHANGED lateVars
    /\ UNCHANGED ingestVars

\* evaluate: the writes into the context, from what was read
EvalWrite(t) ==
    /\ thr[t].pc = "write"
    /\ ctxs' = [ctxs EXCEPT ![thr[t].ref].passes = thr[t].eng + 1]
    /\ hist' = [hist EXCEPT !.evals =
                   @ \cup {[dev |-> thr[t].dev, ts |-> thr[t].now_ts,
                            live |-> thr[t].live]}]
    /\ thr' = [thr EXCEPT ![t].pc = "store"]
    /\ UNCHANGED <<clock, w_lock, w_buf, w_last, w_snaps, fl, stored, ctx_by_dev>>
    /\ UNCHANGED engineVars
    /\ UNCHANGED latchVars
    /\ UNCHANGED lateVars
    /\ UNCHANGED ingestVars

\* _run_diagnosis after evaluate: the alarm rows, db.close(), return
DiagStore(t) ==
    /\ thr[t].pc = "store"
    /\ thr' = [thr EXCEPT ![t] = IdleThread]
    /\ UNCHANGED <<clock, w_lock, w_buf, w_last, w_snaps, fl, stored,
                   ctx_by_dev, ctxs, hist>>
    /\ UNCHANGED engineVars
    /\ UNCHANGED latchVars
    /\ UNCHANGED lateVars
    /\ UNCHANGED ingestVars

\* a caller reports one conductivity reading
EvalCall(t, d) == EnqueueCall(t, d, TeleOnly("conductivity_perm", 1))

NextEval ==
    \/ \E dt \in TickSteps : Tick(dt)
    \/ \E t \in Callers : \E d \in Devices : EvalCall(t, d)
    \/ \E t \in Callers : EnqueueLock(t)
    \/ \E t \in Callers : EnqueueMerge(t)
    \/ \E t \in Callers : DiagConfig(t)
    \/ \E t \in Callers : EvalGetState(t)
    \/ \E t \in Callers : EvalCreate(t)
    \/ \E t \in Callers : EvalRead(t)
    \/ \E t \in Callers : EvalWrite(t)
    \/ \E t \in Callers : DiagStore(t)

SpecEval == InitWriter /\ [][NextEval]_vars

\* ------------------------------------------------------------------------
\* Properties
\* ------------------------------------------------------------------------
Running == {S_PRECHECK_WAIT_PE, S_PRECHECK_SAMPLE_PINT_OFF, S_PRODUCTION}

Emitted(code) == \E i \in DOMAIN res.alarms : res.alarms[i] = code

RuleAlarmEmitted == \E r \in Rules : Emitted(AlarmCode(r))

\* C1 (SpecLatch). With t0 the time of the first true call since the last
\* false call or reset: a true call at time t returns false while t < t0 + D
\* and true once t >= t0 + D, and goes on returning true on every later true
\* call; a false call returns false and forgets t0, so the next true call
\* starts the clock at its own time.
LatchDebounce ==
    /\ (pl_call.op = "hit" /\ pl_call.cond) =>
          /\ pl_t0 # None
          /\ pl_call.ret = (pl_now - pl_t0 >= pl_D)
          /\ pl_fired => pl_call.ret
    /\ (pl_call.op = "hit" /\ ~pl_call.cond) =>
          /\ pl_call.ret = FALSE
          /\ pl_t = None

\* a true call long after the threshold, after an earlier true call already
\* returned true
LatchDebounceWitness ==
    /\ pl_call.op = "hit" /\ pl_call.cond /\ pl_call.ret
    /\ pl_fired
    /\ pl_t0 > 0
    /\ pl_now > pl_t0 + pl_D

\* C2. An evaluation with conductivity exactly 0 leaves the engine STOPPED;
\* when it found a running state it also cleared the six latches, the
\* sampler, the cycle start and the production start, and its only alarm is
\* one I_STOP.
StopRule ==
    CtIsZero(tr.ct) =>
       /\ st.eng_state = S_STOPPED
       /\ tr.state \in Running =>
             /\ \A r \in Rules : st.latch[r] = None
             /\ st.pre_sampler = NoSampler
             /\ st.t_cycle_start = None
             /\ st.prod_since = None
             /\ res.alarms = <<"I_STOP">>

\* a stop out of PRODUCTION, after a baseline had been taken
StopRuleWitness ==
    /\ CtIsZero(tr.ct)
    /\ tr.state = S_PRODUCTION
    /\ res.alarms = <<"I_STOP">>
    /\ st.pint_off_baseline.n > 0

\* C3. Over a run of evaluations with conductivity 0 the engine stays STOPPED
\* and I_STOP has been emitted once if the run began in a running state and
\* not at all otherwise: once per transition, never once per evaluation.
StopIdempotent ==
    zrun.len > 0 =>
       /\ st.eng_state = S_STOPPED
       /\ zrun.istops = IF zrun.from_running THEN 1 ELSE 0

\* three evaluations in a row with conductivity 0, the first out of a
\* running state
StopIdempotentWitness ==
    /\ zrun.len >= 3
    /\ zrun.from_running
    /\ zrun.istops = 1

\* C4. An evaluation that finds the engine IDLE or STOPPED starts a precheck
\* cycle exactly when the conductivity reading is present and non-zero.
PrecheckStartRule ==
    (now > 0 /\ tr.state \in {S_IDLE, S_STOPPED}) =>
       (tr.started <=> (tr.ct # None /\ tr.ct # 0))

\* C5. In the pressure-switch wait: switch 1 moves the engine to the baseline
\* sampling with no alarm; otherwise E02 and STOPPED exactly when at least
\* t_precheck_s has passed since the cycle start, else still waiting with no
\* alarm.
PressureSwitchWait ==
    tr.waited =>
       IF tr.pe = 1
       THEN /\ st.eng_state = S_PRECHECK_SAMPLE_PINT_OFF
            /\ res.alarms = <<>>
       ELSE IF now - st.t_cycle_start >= t_precheck_s(cfg)
       THEN /\ st.eng_state = S_STOPPED
            /\ res.alarms = <<"E02">>
            /\ res.severity = SEV_ALARM
       ELSE /\ st.eng_state = S_PRECHECK_WAIT_PE
            /\ res.alarms = <<>>

\* E02 on the evaluation exactly t_precheck_s after the cycle start
PressureSwitchWaitWitness ==
    /\ tr.waited
    /\ tr.pe # 1
    /\ now - st.t_cycle_start = t_precheck_s(cfg)
    /\ res.alarms = <<"E02">>

\* C6 (SpecPump). A baseline sample is added only while the low pump runs and
\* the high pump is off: an evaluation with the low pump reported off or the
\* high pump reported on adds no sample.
SamplingGatedByPumps ==
    tr.sampled => ~(snap.pump_low = 0 \/ snap.pump_high = 1)

\* C7. A completed baseline window with average <= the near-zero threshold:
\* E01, back to STOPPED, PRODUCTION not entered and no rule evaluated.
NoWaterPrecheck ==
    (/\ tr.window_done
     /\ st.pint_off_baseline.sum
           <= pint_pre_zero_th(cfg) * st.pint_off_baseline.n) =>
       /\ res.alarms = <<"E01">>
       /\ res.severity = SEV_ALARM
       /\ st.eng_state = S_STOPPED
       /\ ~tr.rules

\* E01 for a baseline equal to the threshold
NoWaterPrecheckWitness ==
    /\ tr.window_done
    /\ st.pint_off_baseline.n > 0
    /\ st.pint_off_baseline.sum = pint_pre_zero_th(cfg) * st.pint_off_baseline.n
    /\ res.alarms = <<"E01">>

\* C8. A completed baseline window with average above the threshold: the
\* engine is in PRODUCTION with this evaluation's time as production start,
\* the rules ran on latches that had all been reset (a latch now holds this
\* evaluation's time or nothing, and no rule alarm is out), and W10 is
\* emitted exactly when a reference pressure is configured and the baseline
\* is below 95 % of it.
ProductionEntry ==
    (/\ tr.window_done
     /\ st.pint_off_baseline.sum
           > pint_pre_zero_th(cfg) * st.pint_off_baseline.n) =>
       /\ st.eng_state = S_PRODUCTION
       /\ st.prod_since = now
       /\ tr.rules
       /\ \A r \in Rules : st.latch[r] = IF tr.cond[r] THEN now ELSE None
       /\ ~RuleAlarmEmitted
       /\ Emitted("W10") <=>
             (/\ cfg.ref_pint_work # None
              /\ st.pint_off_baseline.sum * 100
                    < cfg.ref_pint_work * 95 * st.pint_off_baseline.n)
       /\ \A i \in DOMAIN res.alarms : res.alarms[i] = "W10"

\* PRODUCTION entered with W10 out and a rule condition already true
ProductionEntryWitness ==
    /\ tr.window_done
    /\ st.eng_state = S_PRODUCTION
    /\ res.alarms = <<"W10">>
    /\ \E r \in Rules : st.latch[r] = now

\* C9. Inside the ignore window no condition that compares conductivity is
\* true: neither the predicate of rule A nor the high-conductivity test of
\* rules B and F, so none of their latches starts.
ConductivityIgnored ==
    (tr.rules /\ ~tr.ct_valid) =>
       /\ ~tr.ct_high
       /\ \A r \in {"A", "B", "F"} : ~tr.cond[r] /\ st.latch[r] = None

\* C10. A rule's alarm is out exactly when its own condition has held in
\* every evaluation since one at least t_persist_s ago, whatever the other
\* rules' conditions did; and never earlier than t_persist_s after the entry
\* into PRODUCTION.
PersistenceGating ==
    /\ \A r \in Rules :
          Emitted(AlarmCode(r)) <=>
             (since[r] # None /\ now - since[r] >= t_persist_s(cfg))
    /\ RuleAlarmEmitted =>
          /\ tr.rules
          /\ st.prod_since # None
          /\ now - st.prod_since >= t_persist_s(cfg)

\* one rule fires while another rule's condition, true only since later, waits
PersistenceGatingWitness ==
    \E r, q \in Rules :
       /\ Emitted(AlarmCode(r))
       /\ now - since[r] = t_persist_s(cfg)
       /\ since[q] # None
       /\ since[q] > since[r]
       /\ ~Emitted(AlarmCode(q))

\* a rule's latch has fired: its condition has held for t_persist_s or more
Fired(r) == since[r] # None /\ now - since[r] >= t_persist_s(cfg)

PrecheckCodes == {"I_STOP", "E01", "E02", "W10"}

\* C11. In every result each fired rule has exactly one alarm and exactly one
\* recommendation X_REC, a rule that has not fired has neither, and nothing
\* else is recommended; a result carrying I_STOP, E01, E02 or W10 has no
\* recommendation; a rule whose condition has held for t_persist_s or more
\* has both again in every evaluation.
AlarmRecPairing ==
    /\ \A r \in Rules :
          /\ Count(res.alarms, AlarmCode(r)) = (IF Fired(r) THEN 1 ELSE 0)
          /\ Count(res.recs, RecCode(r)) = Count(res.alarms, AlarmCode(r))
    /\ \A i \in DOMAIN res.recs : \E r \in Rules : res.recs[i] = RecCode(r)
    /\ (\E code \in PrecheckCodes : Emitted(code)) => res.recs = <<>>

\* two rules out together, one of them for the second evaluation in a row
AlarmRecPairingWitness ==
    \E r, q \in Rules :
       /\ r # q
       /\ Fired(r) /\ Fired(q)
       /\ now - since[r] > t_persist_s(cfg)
       /\ Count(res.recs, RecCode(r)) = 1
       /\ Count(res.recs, RecCode(q)) = 1
       /\ Len(res.recs) = 2

\* exactly the predicate of rule r is true in the last evaluation
OnlyCond(r) == tr.rules /\ \A q \in Rules : tr.cond[q] <=> (q = r)

\* C12. In PRODUCTION, when the live values satisfy the predicate of exactly
\* one rule and have done so for t_persist_s or more, the result holds that
\* rule's alarm and its recommendation and no other alarm or recommendation.
RuleExclusivity ==
    \A r \in Rules :
       (OnlyCond(r) /\ Fired(r)) =>
          /\ res.alarms = <<AlarmCode(r)>>
          /\ res.recs = <<RecCode(r)>>

\* F_CT_HIGH alone, on values that satisfy no other predicate
RuleExclusivityWitness ==
    /\ OnlyCond("F")
    /\ Fired("F")
    /\ res.alarms = <<"F_CT_HIGH">>
    /\ res.recs = <<"F_REC">>

RowsOf(code) == {a \in db : a.code = code}

\* C13 (SpecScenario). Along the scenario (conductivity 0, then 50, switch 1
\* within 30 s, baseline 1.9 bar, then permeate 510, reject 210, normal
\* pressure and conductivity 200) nothing is stored before F_CT_HIGH fires;
\* from then on the store holds F_CT_HIGH rows and REC_F_REC rows and no
\* other code (no I_STOP, E01, E02, W10, no other rule), one recommendation
\* row beside each alarm row, the first of them from the evaluation
\* t_persist_s after the condition began, and two rows of one code are more
\* than the 15-minute cooldown apart.
ScenarioOutcome ==
    /\ \A a \in db : a.code \in {"F_CT_HIGH", "REC_F_REC"}
    /\ (db # {}) <=> Fired("F")
    /\ \A a \in RowsOf("F_CT_HIGH") :
          /\ \E b \in RowsOf("REC_F_REC") : b.ts = a.ts
          /\ a.ts - since["F"] >= t_persist_s(cfg)
    /\ Cardinality(RowsOf("REC_F_REC")) = Cardinality(RowsOf("F_CT_HIGH"))
    /\ \A a, b \in db :
          (a.code = b.code /\ a.ts < b.ts) => b.ts - a.ts > CooldownS
    /\ Fired("F") =>
          /\ Cardinality({a \in RowsOf("F_CT_HIGH") : a.ts >= now - CooldownS}) = 1
          /\ \E a \in RowsOf("F_CT_HIGH") :
                a.ts - since["F"] \in {t_persist_s(cfg), t_persist_s(cfg) + 60}

\* the warning stored a second time, after the cooldown of the first
ScenarioOutcomeWitness ==
    /\ st.eng_state = S_PRODUCTION
    /\ Cardinality(RowsOf("F_CT_HIGH")) = 2
    /\ Cardinality(RowsOf("REC_F_REC")) = 2

\* the statements of DiagnosticoEngine.evaluate that touch the context
EvalPcs == {"get_state", "create", "read", "write"}

\* C14 (SpecEval). No two threads are inside evaluate for the same device
\* at once; a thread that reads or writes a context uses the one context
\* registered for its device, and no device ever gets a second context.
SerializedEvaluation ==
    /\ \A t1, t2 \in Callers :
          (t1 # t2 /\ thr[t1].dev = thr[t2].dev) =>
             ~(thr[t1].pc \in EvalPcs /\ thr[t2].pc \in EvalPcs)
    /\ \A t \in Callers :
          thr[t].pc \in {"read", "write"} => thr[t].ref = ctx_by_dev[thr[t].dev]
    /\ \A i, j \in DOMAIN ctxs : ctxs[i].dev = ctxs[j].dev => i = j

\* the history of rows appended for device d
RowsFor(d) == {i \in DOMAIN hist.appended : hist.appended[i].dev = d}

\* the time of the last accepted write of device d, 0.0 before the first
LastAccepted(d) ==
    IF RowsFor(d) = {} THEN 0
    ELSE CHOOSE x \in {hist.appended[i].ts : i \in RowsFor(d)} :
            \A i \in RowsFor(d) : hist.appended[i].ts <= x

\* thread t runs the body of the with block of enqueue in this step
MergeStep(t) == thr[t].pc = "merge" /\ thr'[t].pc # "merge"

\* rows of one device are min_interval_s or more apart, so that a device has
\* at most floor(T / min_interval_s) + 1 rows over a span T
RowSpacing ==
    /\ \A i, j \in DOMAIN hist.appended :
          (i < j /\ hist.appended[i].dev = hist.appended[j].dev) =>
             hist.appended[j].ts - hist.appended[i].ts >= min_interval_s
    /\ \A d \in Devices : \A i, j \in RowsFor(d) :
          hist.appended[i].ts <= hist.appended[j].ts =>
             Cardinality({k \in RowsFor(d) :
                            /\ hist.appended[i].ts <= hist.appended[k].ts
                            /\ hist.appended[k].ts <= hist.appended[j].ts})
             <= ((hist.appended[j].ts - hist.appended[i].ts)
                    \div min_interval_s) + 1

\* an enqueue less than min_interval_s after the last accepted write of its
\* own device appends no row, leaves the last-accepted times alone and starts
\* no diagnosis; any other enqueue appends one row, whatever other devices did
RateLimitStep ==
    \A t \in Callers :
       MergeStep(t) =>
          IF thr[t].now_ts - LastAccepted(thr[t].dev) < min_interval_s
          THEN /\ w_buf' = w_buf
               /\ w_last' = w_last
               /\ hist'.appended = hist.appended
               /\ thr'[t].pc = "idle"
               /\ w_snaps'[thr[t].dev] = Supplied(w_snaps[thr[t].dev], thr[t].p)
          ELSE /\ Len(w_buf') = Len(w_buf) + 1
               /\ w_last'[thr[t].dev] = thr[t].now_ts
               /\ thr'[t].pc = "diag"

\* C15 (SpecWriter). Rate limiting per device: a coalesced enqueue merges its
\* fields and does nothing else, rows of one device are at least
\* min_interval_s apart (at most floor(T / min_interval_s) + 1 over a span
\* T), and only the device's own last accepted write decides.
RateLimiting == [](RowSpacing) /\ [][RateLimitStep]_vars

\* two rows of d1 exactly min_interval_s apart with a row of d2 in between,
\* the second row of d1 holding values that coalesced enqueues merged
RateLimitingWitness ==
    \E i, j, k \in DOMAIN hist.appended :
       /\ hist.appended[i].dev = "d1" /\ hist.appended[j].dev = "d1"
       /\ hist.appended[k].dev = "d2"
       /\ hist.appended[j].ts - hist.appended[i].ts = min_interval_s
       /\ hist.appended[k].ts > hist.appended[i].ts
       /\ hist.appended[k].ts < hist.appended[j].ts
       /\ hist.appended[i].vals.flow_perm = 1
       /\ hist.appended[i].vals.conductivity_perm = None
       /\ hist.appended[j].vals.flow_perm = 2
       /\ hist.appended[j].vals.conductivity_perm = 1

\* C16 (SpecWriter). After any sequence of enqueues, accepted or coalesced,
\* in the order in which they took the lock, the snapshot of a device holds
\* for each field the value of the last enqueue that carried it, and nothing
\* for a field never supplied.
SnapshotFreshness == \A d \in Devices : w_snaps[d] = hist.fresh[d]

\* the snapshot holds a value newer than the last row, and a field the row
\* does not have: both from coalesced enqueues
SnapshotFreshnessWitness ==
    /\ RowsFor("d1") # {}
    /\ \A i \in RowsFor("d1") :
          /\ hist.appended[i].vals.flow_perm = 1
          /\ hist.appended[i].vals.conductivity_perm = None
    /\ w_snaps["d1"].flow_perm = 2
    /\ w_snaps["d1"].conductivity_perm = 1

\* the threads in _run_diagnosis for the row of device d written at ts
Diagnosing(d, ts) ==
    {t \in Callers : thr[t].pc = "diag" /\ thr[t].dev = d /\ thr[t].now_ts = ts}

\* the evaluations made for the row of device d written at ts
EvalsOf(d, ts) == {e \in hist.evals : e.dev = d /\ e.ts = ts}

\* the evaluate passes made on the context of device d
Passes(d) == IF ctx_by_dev[d] = 0 THEN 0 ELSE ctxs[ctx_by_dev[d]].passes

\* C17 (SpecWriter). Every accepted enqueue has appended one row and has one
\* diagnosis pass, under way or done, and none besides; a pass evaluates the
\* values of its row, whatever other enqueues have merged since.
AcceptedWrite ==
    /\ \A i, j \in DOMAIN hist.appended :
          (/\ hist.appended[i].dev = hist.appended[j].dev
           /\ hist.appended[i].ts = hist.appended[j].ts) => i = j
    /\ \A i \in DOMAIN hist.appended :
          Cardinality(Diagnosing(hist.appended[i].dev, hist.appended[i].ts))
          + Cardinality(EvalsOf(hist.appended[i].dev, hist.appended[i].ts)) = 1
    /\ \A e \in hist.evals :
          \E i \in DOMAIN hist.appended :
             /\ hist.appended[i].dev = e.dev
             /\ hist.appended[i].ts = e.ts
             /\ e.live = LiveOf(hist.appended[i].vals)
    /\ \A t \in Callers :
          thr[t].pc = "diag" =>
             \E i \in DOMAIN hist.appended :
                hist.appended[i] = RowOf(thr[t].dev, thr[t].now_ts, thr[t].copy)
    /\ \A d \in Devices :
          Passes(d) = Cardinality({e \in hist.evals : e.dev = d})

\* a pass has evaluated the values of its row after another enqueue changed
\* the snapshot of the device
AcceptedWriteWitness ==
    \E e \in hist.evals :
       /\ e.dev = "d1"
       /\ e.ts = LastAccepted("d1")
       /\ e.live.flow_perm = 1
       /\ w_snaps["d1"].flow_perm = 2
       /\ \E t \in Callers : thr[t].pc = "diag"

\* C18 (SpecFlush). A caller holds the writer lock exactly while it runs the
\* body of the with block of enqueue, the flush thread exactly while it
\* looks at the batch length or copies and clears the batch: never in
\* _run_diagnosis, never during the insert of a batch.
LockScope ==
    /\ \A t \in Callers : (w_lock = t) <=> (thr[t].pc = "merge")
    /\ (w_lock = Flusher) <=> (fl.pc \in {"check", "take"})

\* a diagnosis and a batch insert under way while another caller holds the lock
LockScopeWitness ==
    \E t, u \in Callers :
       /\ thr[t].pc = "diag"
       /\ fl.pc = "insert"
       /\ w_lock = u
       /\ thr[u].pc = "merge"

\* C19 (SpecFlush). While no insert has failed, the rows appended so far are
\* the rows stored, then the rows of the batch being inserted, then the rows
\* still in the buffer, each once and in order; and flush is entered only
\* with a non-empty buffer that has batch_size rows or is flush_interval_s
\* past the last flush.
FlushDelivery ==
    hist.fails = 0 =>
       /\ hist.appended = stored \o fl.batch \o w_buf
       /\ fl.pc \in {"flush_lock", "take"} =>
             /\ Len(w_buf) > 0
             /\ \/ Len(w_buf) >= batch_size
                \/ fl.now - fl.last_flush >= flush_interval_s
       /\ fl.pc # "insert" => fl.batch = <<>>

\* a row appended during the insert of a batch, after an earlier batch was
\* stored
FlushDeliveryWitness ==
    /\ hist.fails = 0
    /\ fl.pc = "insert"
    /\ fl.batch # <<>>
    /\ w_buf # <<>>
    /\ stored # <<>>

RECURSIVE Among(_, _)
Among(row, rows) ==
    IF rows = <<>> THEN FALSE
    ELSE Head(rows) = row \/ Among(row, Tail(rows))

\* C20 (SpecFlush). After a failed insert the rows of the failed batch are
\* back in the buffer, or stored by a later flush, and the flush thread is
\* still running.
FlushFailureRetained ==
    hist.fails > 0 =>
       /\ fl.pc # "dead"
       /\ \A i \in DOMAIN hist.lost :
             Among(hist.lost[i], w_buf \o fl.batch \o stored)

\* the five states of the specification
EngineStates ==
    {S_IDLE, S_STOPPED, S_PRECHECK_WAIT_PE, S_PRECHECK_SAMPLE_PINT_OFF,
     S_PRODUCTION}

\* one evaluation, seen from the stored state before and after it: the
\* baseline state is entered only by a pass that waited for the pressure
\* switch, PRODUCTION only from the stored baseline state, and from the wait
\* to PRODUCTION the cycle start stays the one PrecheckStart set
EngineStateStep ==
    /\ (st'.eng_state = S_PRECHECK_SAMPLE_PINT_OFF
        /\ st.eng_state # S_PRECHECK_SAMPLE_PINT_OFF) =>
          /\ tr'.waited
          /\ st.eng_state \in {S_IDLE, S_STOPPED, S_PRECHECK_WAIT_PE}
    /\ (st'.eng_state = S_PRODUCTION /\ st.eng_state # S_PRODUCTION) =>
          /\ st.eng_state = S_PRECHECK_SAMPLE_PINT_OFF
          /\ tr'.window_done
    /\ (st.eng_state \in {S_PRECHECK_WAIT_PE, S_PRECHECK_SAMPLE_PINT_OFF}
        /\ st'.eng_state \in {S_PRECHECK_WAIT_PE, S_PRECHECK_SAMPLE_PINT_OFF,
                              S_PRODUCTION}) =>
          /\ st'.t_cycle_start = st.t_cycle_start
          /\ st.t_cycle_start # None

\* C30. The engine state of the device is always one of IDLE, STOPPED,
\* PRECHECK_WAIT_PE, PRECHECK_SAMPLE_PINT_OFF and PRODUCTION, never
\* STARTING_HIGH; PRODUCTION is entered only from the baseline-sampling
\* state, which is entered only through the wait for the pressure switch,
\* both inside the cycle that PrecheckStart opened.
EngineStateSet ==
    /\ [](st.eng_state \in EngineStates /\ st.eng_state # S_STARTING_HIGH)
    /\ [][EngineStateStep]_vars

\* PRODUCTION just entered from the baseline state, inside a cycle
EngineStateSetWitness ==
    /\ st.eng_state = S_PRODUCTION
    /\ tr.state = S_PRECHECK_SAMPLE_PINT_OFF
    /\ tr.window_done
    /\ st.t_cycle_start # None
    /\ st.prod_since = now

\* C21. Once the flush loop has exited after stop(), every row that was in
\* the batch when stop() was called is among the stored rows.
ShutdownDrain ==
    fl.pc = "exited" =>
       \A i \in DOMAIN hist.at_stop : Among(hist.at_stop[i], stored)

\* a diagnosis pass that raised
FailedPass(t) ==
    \E r \in PassResults : \E stage \in FailStages \ {"none"} : \E k \in 0..2 :
       DiagnosisPass(t, r, stage, k)

\* C22 (SpecContain). A diagnosis pass that raises, at the session, the
\* config read, inside evaluate, at a dedup query or at an insert, ends with
\* the caller back from enqueue and ready for the next message: no thread
\* is ever left with the exception, the row the enqueue appended is still in
\* the batch, and the candidates the pass did not get to insert are not in
\* the alarms table then or later.
ErrorContainment ==
    /\ [](/\ \A t \in Callers : thr[t].pc # "raised"
          /\ w_buf = hist.appended
          /\ hist.dropped \cap alarms = {})
    /\ [][\A t \in Callers : FailedPass(t) =>
             /\ thr'[t] = IdleThread
             /\ w_buf' = w_buf /\ w_snaps' = w_snaps /\ w_last' = w_last
             /\ \A a \in alarms' \ alarms :
                   a.device_id = thr[t].dev /\ a.ts = thr[t].now_ts]_vars

\* after a pass of d1 that dropped an alarm: a row of d2 and a later row of
\* d1 are in the batch and a later pass of d1 stored an alarm
ErrorContainmentWitness ==
    /\ hist.fails > 0
    /\ \E x \in hist.dropped : \E a \in alarms : \E i, j \in DOMAIN w_buf :
          /\ x.device_id = "d1" /\ a.device_id = "d1" /\ a.ts > x.ts
          /\ w_buf[i].dev = "d2" /\ w_buf[j].dev = "d1" /\ w_buf[j].ts = a.ts

\* a row of this device and code no older than the cooldown, asked at time t
RecentRow(tbl, d, key, t) ==
    \E a \in tbl : a.device_id = d /\ a.code = key /\ t - a.ts <= CooldownS

OfflineRows(tbl, d) ==
    {a \in tbl : a.device_id = d /\ a.code = "DEVICE_OFFLINE"}

\* one turn of the scan loop on device d
ScanTurn(d) == \E status \in Statuses : ScanDevice(d, status)

\* a turn of the scan on a stale device that is not OFFLINE sets it OFFLINE
\* and adds one DEVICE_OFFLINE row and nothing else
ScanSetsOffline ==
    \A d \in Devices :
       (/\ ScanTurn(d)
        /\ devices[d].status # "OFFLINE"
        /\ devices[d].last_seen # None
        /\ clock - devices[d].last_seen > OFFLINE_AFTER_S) =>
       /\ devices'[d].status = "OFFLINE"
       /\ \E a \in OfflineRows(alarms', d) : alarms' = alarms \cup {a}
       /\ OfflineRows(alarms', d) # OfflineRows(alarms, d)

\* a turn of the scan on a device that is OFFLINE adds no row
ScanSkipsOffline ==
    \A d \in Devices : (ScanTurn(d) /\ devices[d].status = "OFFLINE") =>
       alarms' = alarms /\ devices' = devices

\* a device the scan sets OFFLINE has a last_seen older than the threshold
ScanSparesFresh ==
    \A d \in Devices :
       (devices'[d].status = "OFFLINE" /\ devices[d].status # "OFFLINE") =>
          /\ devices[d].last_seen # None
          /\ clock - devices[d].last_seen > OFFLINE_AFTER_S

\* C24 (SpecPresence). The scan sets every stale device that is not OFFLINE
\* to OFFLINE with exactly one DEVICE_OFFLINE alarm, gives a device that is
\* already OFFLINE no further alarm, and never sets OFFLINE a device whose
\* last_seen is within the threshold.
OfflineWatchdog ==
    [][ScanSetsOffline /\ ScanSkipsOffline /\ ScanSparesFresh]_vars

\* the rows of one presence code of device d
PresenceRows(tbl, d, code) == {a \in tbl : a.device_id = d /\ a.code = code}

\* a step in which the throttle let a message of the registered device d
\* through to the presence touch
PresenceTouched(d) == touch'[d] # touch[d] /\ devices[d] # NoDevice

\* what a presence touch of d does to the registry and the alarm table
PresenceTouchStep ==
    \A d \in Devices :
       PresenceTouched(d) =>
          /\ devices'[d] = [status |-> "ONLINE", last_seen |-> clock]
          /\ IF devices[d].last_seen = None
             THEN /\ Cardinality(alarms') = Cardinality(alarms) + 1
                  /\ \E a \in PresenceRows(alarms', d, "DEVICE_FIRST_SEEN") :
                        alarms' = alarms \cup {a}
             ELSE IF devices[d].status = "OFFLINE"
                  THEN /\ Cardinality(alarms') = Cardinality(alarms) + 1
                       /\ \E a \in PresenceRows(alarms', d, "DEVICE_RECONNECTED") :
                             alarms' = alarms \cup {a}
                  ELSE alarms' = alarms

UnknownDeviceDropped ==
    \A d \in Devices :
       devices[d] = NoDevice =>
          /\ w_snaps[d] = EmptySnapshot
          /\ \A i \in DOMAIN hist.appended : hist.appended[i].dev # d
          /\ ctx_by_dev[d] = 0
          /\ d \notin ctx
          /\ \A e \in hist.evals : e.dev # d
          /\ \A a \in alarms : a.device_id # d

\* a JSON number
JsonNumber(x) == x >= 0

\* the payload is a JSON number, or an object with a number under key
NumericPayload(payload, key) ==
    \/ payload.kind = "scalar" /\ JsonNumber(payload.val)
    \/ payload.kind = "object" /\ JsonNumber(payload.obj[key])

\* the messages that are to be dropped: fewer than four segments, a wrong
\* root, tele without a field, on an unknown field or with a payload that
\* is no number in either object form, state with a payload that is not an
\* object, event without a name
Malformed(m) ==
    \/ Len(m.topic) < 4
    \/ m.topic[1] # TOPIC_ROOT
    \/ /\ m.topic[4] = "tele"
       /\ \/ Len(m.topic) < 5
          \/ m.topic[5] \notin TELE_KEYS
          \/ /\ ~NumericPayload(_decode_payload(m.raw), "v")
             /\ ~NumericPayload(_decode_payload(m.raw), "value")
    \/ /\ m.topic[4] = "state"
       /\ _decode_payload(m.raw).kind # "object"
    \/ /\ m.topic[4] = "event"
       /\ \/ _decode_payload(m.raw).kind # "object"
          \/ _decode_payload(m.raw).obj["name"] = Absent

\* C28 (SpecIngest). A malformed message changes no snapshot, no batch, no
\* engine context and no field of the device registry, and records no
\* alarm.
MalformedDropped ==
    [][\A m \in Messages :
          (Malformed(m) /\ OnMessage(m.topic, m.raw)) =>
             UNCHANGED <<w_snaps, w_buf, ctx_by_dev, ctxs, ctx, devices,
                         alarms>>]_vars

\* the value a tele payload stands for: a raw number x, or {"value": x}
DecodedValue(payload) ==
    IF payload.kind = "scalar" /\ JsonNumber(payload.val) THEN payload.val
    ELSE IF payload.kind = "object" /\ JsonNumber(payload.obj["value"])
         THEN payload.obj["value"]
         ELSE None

\* a tele message on a known field
KnownTele(m) ==
    /\ _extract_parts(m.topic).ok
    /\ _extract_parts(m.topic).kind = "tele"
    /\ Len(m.topic) >= 5
    /\ m.topic[5] \in TELE_KEYS

\* C29 (SpecIngest). A tele message on a known field with the payload x or
\* {"value": x}, x a number, hands {field: x} to the writer and to the
\* engine; with any other payload nothing is handed on.
TeleDecoding ==
    [][\A m \in Messages :
          (KnownTele(m) /\ OnMessage(m.topic, m.raw)) =>
             LET x == DecodedValue(_decode_payload(m.raw))
                 d == m.topic[3]
             IN  IF x # None
                 THEN /\ w_snaps'[d][m.topic[5]] = x
                      /\ hist'.fresh[d][m.topic[5]] = x
                      /\ d \in ctx'
                 ELSE UNCHANGED <<w_snaps, w_buf, ctx_by_dev, ctxs, ctx, hist>>]_vars

\* C27 (SpecMissing). For a device without a stored configuration every
\* pass is skipped: its diagnostic state stays as it was created, the pass
\* yields no alarm and no recommendation and no row is stored.
MissingConfigSkipped ==
    /\ st = InitState
    /\ res = EmptyResult
    /\ db = {}

\* the add calls since the last reset whose value was a number
Accepted(adds) == SelectSeq(adds, LAMBDA a : a.v # None /\ a.v # NaS)

\* C31 (SpecSampler). With t0 the timestamp of the first accepted sample,
\* done(now) is false for every now < t0 + W and true for every
\* now >= t0 + W, whatever was added afterwards; before any accepted sample
\* elapsed is 0 and done is false; elapsed is never negative.
SamplerCompletion ==
    \A n \in 0..(MaxSampleTime + 4) :
       /\ SamplerElapsed(smp.s, n) >= 0
       /\ IF Accepted(smp.adds) = <<>>
          THEN SamplerElapsed(smp.s, n) = 0 /\ ~SamplerDone(smp.s, n)
          ELSE SamplerDone(smp.s, n)
                  = (n >= Accepted(smp.adds)[1].ts + smp.s.window_s)

\* a later sample with an earlier and one with a later timestamp than the
\* first, and the window complete
SamplerCompletionWitness ==
    /\ Len(Accepted(smp.adds)) = 3
    /\ Accepted(smp.adds)[2].ts < Accepted(smp.adds)[1].ts
    /\ Accepted(smp.adds)[3].ts > Accepted(smp.adds)[1].ts
    /\ SamplerDone(smp.s, MaxSampleTime)
    /\ ~SamplerDone(smp.s, Accepted(smp.adds)[3].ts)

\* what stats() is to report for the accepted calls
StatsOf(acc) ==
    IF acc = <<>>
    THEN [avg |-> None, min |-> None, max |-> None, n |-> 0]
    ELSE [avg |-> [sum |-> SumVals(acc), n |-> Len(acc)],
          min |-> CHOOSE x \in {acc[i].v : i \in DOMAIN acc} :
                     \A i \in DOMAIN acc : x <= acc[i].v,
          max |-> CHOOSE x \in {acc[i].v : i \in DOMAIN acc} :
                     \A i \in DOMAIN acc : x >= acc[i].v,
          n |-> Len(acc)]

\* an add of None or of a string that is no number leaves the sampler as it is
RejectedAddStep ==
    (/\ Len(smp'.adds) = Len(smp.adds) + 1
     /\ smp'.adds[Len(smp'.adds)].v \in {None, NaS}) => smp'.s = smp.s

\* C32 (SpecSampler). stats() reports n, min, max and avg = sum / n of
\* exactly the accepted values, all None and n = 0 when there is none; an
\* add of an absent or non-numeric value changes nothing; the window start
\* is the timestamp of the first accepted sample until reset().
SamplerAccumulation ==
    /\ [](/\ SamplerStats(smp.s) = StatsOf(Accepted(smp.adds))
          /\ smp.s.t0 = IF Accepted(smp.adds) = <<>> THEN None
                        ELSE Accepted(smp.adds)[1].ts)
    /\ [][RejectedAddStep]_vars

\* two accepted values that differ, with a rejected call among the calls
SamplerAccumulationWitness ==
    /\ Len(smp.adds) = 3
    /\ Len(Accepted(smp.adds)) = 2
    /\ SamplerStats(smp.s).min = 1
    /\ SamplerStats(smp.s).max = 3
    /\ smp.s.t0 # None

\* the context registered for a device is the one created for it, and no
\* two devices are registered with the same context
ContextsApart ==
    \A d \in Devices :
       ctx_by_dev[d] # 0 =>
          /\ ctxs[ctx_by_dev[d]].dev = d
          /\ \A e \in Devices : e # d => ctx_by_dev[e] # ctx_by_dev[d]

\* a registered context stays registered
ContextKept ==
    \A d \in Devices : ctx_by_dev[d] # 0 => ctx_by_dev'[d] = ctx_by_dev[d]

\* a context changes only in a write of an evaluation for its own device
ContextFrame ==
    \A i \in DOMAIN ctxs :
       ctxs'[i] # ctxs[i] =>
          \E t \in Callers :
             /\ thr[t].pc = "write"
             /\ thr'[t].pc = "store"
             /\ thr[t].dev = ctxs[i].dev

\* C33 (SpecEval). The context of a device is created on its first
\* evaluation and never replaced; an evaluation for one device leaves the
\* contexts of the others unchanged; no two devices share a context.
DeviceIsolation ==
    /\ []ContextsApart
    /\ [][ContextKept /\ ContextFrame]_vars

\* C34 (SpecTransport). No failed connection attempt ends the thread of a
\* listener or records an alarm, and once the broker stays reachable every
\* listener is eventually connected and subscribed for good.
TransportReconnection ==
    /\ [](\A p \in Programs : mq.cl[p].pc # "dead")
    /\ [](alarms = {})
    /\ (<>[]mq.up) => <>[](\A p \in Programs :
                              mq.cl[p].connected /\ mq.cl[p].subscribed)

\* C35 (Spec). The engine is in PRECHECK_SAMPLE_PINT_OFF only after
\* evaluations made less than one sampling window after it entered that
\* state: the first evaluation at or after that time leaves it.
BaselineProgress ==
    st.eng_state = S_PRECHECK_SAMPLE_PINT_OFF =>
       now - sampling < t_precheck_s(cfg)

\* the retry counter of the legacy engine stays within 0..3
LegacyRetriesBounded == leg.c.retries \in 0..3

\* the call of ingest of this step ran the rules of evaluate in the session
\* the device was in
LegacyEvaluated ==
    /\ leg'.c.last_eval_ts = leg'.now
    /\ leg.c.last_eval_ts # leg'.now
    /\ leg'.c.state.float_call = 1
    /\ leg'.c.start_ts = leg.c.start_ts

\* a failed start is counted one at a time, by an evaluation in STARTING that
\* finds the switch open after the start wait, 30 s or more after the
\* failure counted before
LegacyRetryCounted ==
    leg'.c.retries # leg.c.retries /\ leg'.c.retries # 0
    => /\ leg'.c.retries = leg.c.retries + 1
       /\ LegacyEvaluated
       /\ leg.c.mode = "STARTING"
       /\ leg'.c.tele.presostat_low # 1
       /\ leg'.now - leg.c.start_ts >= LegacyCfg.start_wait_presostat_s
       /\ leg'.c.retry_last_ts = leg'.now
       /\ leg.c.retries > 0 => leg'.now - leg.c.retry_last_ts >= 30

\* a session that starts or ends leaves the counter at 0
LegacyRetryReset ==
    leg'.c.start_ts # leg.c.start_ts \/ leg'.c.start_ts = leg'.now
    => leg'.c.retries = 0

\* START_RETRY is stored for the first and the second failure only
LegacyStartRetry ==
    "START_RETRY" \in leg'.c.raised
    => leg'.c.retries \in {1, 2} /\ leg'.c.retries = leg.c.retries + 1

\* the step counts the third failure of a session
LegacyThirdFailure == leg.c.retries = 2 /\ leg'.c.retries = 3

\* the alarm of a third failure
LegacyLockoutCode ==
    IF leg'.c.tele.pressure_inter > LegacyCfg.p_transducer_threshold
    THEN "SEDIMENT_FILTER_DIRTY" ELSE "NO_WATER_FEED"

\* the step is an evaluation in STARTING, after the start wait, that finds
\* the switch closed
LegacySwitchClosed ==
    /\ LegacyEvaluated
    /\ leg.c.mode = "STARTING"
    /\ leg'.now - leg.c.start_ts >= LegacyCfg.start_wait_presostat_s
    /\ leg'.c.tele.presostat_low = 1

\* what C38 says of the third failure: its alarm is stored and the device
\* is in LOCKOUT
LegacyThirdRaises ==
    LegacyThirdFailure
    => /\ leg'.c.raised \cap {"SEDIMENT_FILTER_DIRTY", "NO_WATER_FEED"}
             = {LegacyLockoutCode}
       /\ leg'.c.mode = "LOCKOUT"

\* what C38 says of the closed switch: PRODUCTION and no alarm
LegacyClosedSilent ==
    /\ LegacySwitchClosed => leg'.c.mode = "PRODUCTION" /\ leg'.c.raised = {}
    /\ leg.c.mode = "STARTING" /\ leg'.c.mode = "PRODUCTION" => LegacySwitchClosed

\* C38 as stated: in STARTING a failed start is counted at most once per
\* 30 s, the counter stays within 0..3 and is 0 when a session starts or
\* ends, START_RETRY is raised for failures 1 and 2 only, the third failure
\* raises SEDIMENT_FILTER_DIRTY or NO_WATER_FEED by the inter-membrane
\* pressure and locks the device out, and a closed switch moves STARTING to
\* PRODUCTION with no alarm
LegacyStartRetries ==
    /\ []LegacyRetriesBounded
    /\ [][/\ LegacyRetryCounted
          /\ LegacyRetryReset
          /\ LegacyStartRetry
          /\ LegacyThirdRaises
          /\ LegacyClosedSilent]_vars

\* the third failure locks the device out, and its alarm is stored unless
\* the same code was stored less than 300 s before
LegacyThirdRaises_cooldown ==
    LegacyThirdFailure
    => /\ leg'.c.raised \cap {"SEDIMENT_FILTER_DIRTY", "NO_WATER_FEED"}
             = IF \/ leg.c.last_alarm_ts[LegacyLockoutCode] = None
                  \/ leg'.now - leg.c.last_alarm_ts[LegacyLockoutCode] >= 300
               THEN {LegacyLockoutCode} ELSE {}
       /\ leg'.c.mode = "LOCKOUT"

\* a closed switch moves STARTING to PRODUCTION, and the only alarm of that
\* evaluation is PRESSURE_HIGH_INSTANT, when the inter-membrane pressure is
\* at or above the instantaneous threshold outside its cooldown of 180 s
LegacyClosedInstant ==
    /\ LegacySwitchClosed
       => /\ leg'.c.mode = "PRODUCTION"
          /\ leg'.c.raised =
               IF /\ leg'.c.tele.pressure_inter >= 260
                  /\ \/ leg.c.last_alarm_ts["PRESSURE_HIGH_INSTANT"] = None
                     \/ leg'.now - leg.c.last_alarm_ts["PRESSURE_HIGH_INSTANT"] >= 180
               THEN {"PRESSURE_HIGH_INSTANT"} ELSE {}
    /\ leg.c.mode = "STARTING" /\ leg'.c.mode = "PRODUCTION" => LegacySwitchClosed

\* C38 amended: as C38, except that the alarm of the third failure is
\* subject to its cooldown of 300 s, and that the evaluation that finds the
\* switch closed may raise PRESSURE_HIGH_INSTANT
LegacyStartRetries_amended ==
    /\ []LegacyRetriesBounded
    /\ [][/\ LegacyRetryCounted
          /\ LegacyRetryReset
          /\ LegacyStartRetry
          /\ LegacyThirdRaises_cooldown
          /\ LegacyClosedInstant]_vars

\* a second lockout within 300 s of the first, whose alarm was not stored
LegacyStartRetriesWitness ==
    /\ leg.c.mode = "LOCKOUT"
    /\ leg.c.retries = 3
    /\ leg.c.retry_last_ts = leg.now
    /\ leg.c.last_alarm_ts["SEDIMENT_FILTER_DIRTY"] = None
    /\ leg.c.last_alarm_ts["NO_WATER_FEED"] # None
    /\ leg.c.last_alarm_ts["NO_WATER_FEED"] < leg.now

\* the alarms of the production rules
ProductionCodes == {"MEMBRANE_FOULING", "FLUSH_VALVE_OR_NEEDLE", "PERMEATE_COND_HIGH"}

\* no production alarm before stabilize_pressure_s since the session start
LegacyStabilizeGate ==
    leg'.c.raised \cap ProductionCodes # {}
    => leg'.now - leg'.c.start_ts >= LegacyCfg.stabilize_pressure_s

\* no PERMEATE_COND_HIGH before cond_ignore_minutes x 60 s since the session
\* start
LegacyCondGate ==
    "PERMEATE_COND_HIGH" \in leg'.c.raised
    => leg'.now - leg'.c.start_ts >= LegacyCfg.cond_ignore_minutes * 60

\* C39: within a session the legacy engine raises no production-rule alarm
\* (MEMBRANE_FOULING, FLUSH_VALVE_OR_NEEDLE, PERMEATE_COND_HIGH) before
\* stabilize_pressure_s seconds since the session start, and no
\* PERMEATE_COND_HIGH before cond_ignore_minutes x 60 seconds since it
LegacyTimeGates == [][LegacyStabilizeGate /\ LegacyCondGate]_vars

\* the state float_call of a locked-out device drops to 0
LockoutDrop ==
    /\ leg.c.mode = "LOCKOUT"
    /\ leg.c.state.float_call = 1
    /\ leg'.c.state.float_call = 0

\* C40: a device in LOCKOUT whose float_call state drops to 0 returns to
\* IDLE (from where the next float_call = 1 starts a session with retries
\* 0), so that state messages alone take a device out of LOCKOUT
LegacyLockoutRecovery == [][LockoutDrop => leg'.c.mode = "IDLE"]_vars

\* C36 (SpecPresence). Under any interleaving of the scan of the watchdog
\* with the presence touches of the callback, no device has the status
\* OFFLINE while its stored last_seen is within the offline threshold: a
\* device that reported after the scan read its stale list is not set
\* OFFLINE.
OfflineNotRacy ==
    \A d \in Devices :
       (devices[d] # NoDevice /\ devices[d].status = "OFFLINE") =>
          /\ devices[d].last_seen # None
          /\ clock - devices[d].last_seen > OFFLINE_AFTER_S

\* the alarms of going offline and coming back, in the order of the history
OfflineCycle(log) ==
    SelectSeq(log, LAMBDA c : c \in {"DEVICE_OFFLINE", "DEVICE_RECONNECTED"})

\* DEVICE_OFFLINE first, then in turns
Alternates(s) ==
    \A i \in 1..Len(s) :
       s[i] = IF i % 2 = 1 THEN "DEVICE_OFFLINE" ELSE "DEVICE_RECONNECTED"

\* C37 (SpecRace). In the alarm history of every device DEVICE_OFFLINE and
\* DEVICE_RECONNECTED strictly alternate, beginning with DEVICE_OFFLINE, and
\* the first presence alarm is DEVICE_FIRST_SEEN, under any interleaving of
\* the watchdog and the callback thread.
PresenceOrdering ==
    \A d \in Devices :
       /\ Alternates(OfflineCycle(pres.log[d]))
       /\ pres.log[d] # <<>> => pres.log[d][1] = "DEVICE_FIRST_SEEN"

====
